---- MODULE Spec2Model ----
(***************************************************************************)
(* A model of the Monkey-family interpreter: the chained Environment       *)
(* (src/src/evaluator/environment.rs), the value model                     *)
(* (src/src/evaluator/object.rs) and the tree-walking Evaluator            *)
(* (src/src/evaluator/evaluator.rs).  The evaluator's recursion is         *)
(* unfolded into a machine with an explicit stack of frames, one frame per *)
(* suspended Rust call, so that every intermediate state of an evaluation  *)
(* is a state of the model.  The Lexer (src/src/lexer/lexer.rs) and the    *)
(* Parser (src/src/parser/parser.rs) follow, each with a specification of  *)
(* its own.                                                                *)
(***************************************************************************)
EXTENDS Integers, Sequences, FiniteSets, TLC

VARIABLES program, envs, ctl, stack, lastOp, source, lexer, parser

vars == <<program, envs, ctl, stack, lastOp, source, lexer, parser>>

---------------------------------------------------------------------------
(* Bounds of the model.                                                    *)

\* Environments (Rc<RefCell<Environment>>) an evaluation may allocate.
MaxEnvs == 9
\* Environments the Environment API specification may allocate.
MaxScopes == 3
\* Bindings all the stores of the Environment API specification hold together.
MaxBindings == 2
\* Largest argument k of the recursive programs f(k).
MaxK == 2
\* Object::Integer is an i64; the model keeps a two's-complement width of
\* IntBits bits, which is what bounds the arithmetic.
IntBits == 8

IntMin == 0 - 2 ^ (IntBits - 1)
IntMax == 2 ^ (IntBits - 1) - 1

---------------------------------------------------------------------------
(* Option<T>: None is the empty sequence, Some(v) a one-element sequence.  *)

None == <<>>
Some(v) == <<v>>

---------------------------------------------------------------------------
(* The AST: parser/ast/expression.rs, statement.rs, operator.rs, node.rs.  *)
(* Every node carries its variant in the field kind.                       *)

ExprInt(n) == [kind |-> "Int", int |-> n]
ExprBool(b) == [kind |-> "Bool", bool |-> b]
ExprNull == [kind |-> "Null"]
ExprIdentifier(identifier) == [kind |-> "Identifier", name |-> identifier]
ExprPrefix(rhs, operator) == [kind |-> "Prefix", operator |-> operator, rhs |-> rhs]
ExprInfix(lhs, rhs, operator) ==
    [kind |-> "Infix", lhs |-> lhs, operator |-> operator, rhs |-> rhs]
ExprIf(condition, consequence, alternative) ==
    [kind |-> "If", condition |-> condition, consequence |-> consequence,
     alternative |-> alternative]
ExprFunction(parameters, body) ==
    [kind |-> "Function", parameters |-> parameters, body |-> body]
ExprCall(function, arguments) ==
    [kind |-> "Call", function |-> function, arguments |-> arguments]

StmtLet(name, value) == [kind |-> "Let", name |-> name, value |-> value]
StmtReturn(value) == [kind |-> "Return", value |-> value]
StmtExpression(expression) == [kind |-> "Expression", expression |-> expression]
StmtBlock(statements) == [kind |-> "Block", statements |-> statements]

NodeProgram(statements) == [kind |-> "Program", statements |-> statements]

ExpressionKinds ==
    {"Int", "Bool", "Null", "Identifier", "Prefix", "Infix", "If", "Function", "Call"}

\* impl Display for InfixOperator / PrefixOperator: operators are modelled by
\* their variant names and printed by these tables.
DisplayInfixOperator(operator) ==
    CASE operator = "Add" -> "+"
      [] operator = "Sub" -> "-"
      [] operator = "Mult" -> "*"
      [] operator = "Div" -> "/"
      [] operator = "Modulo" -> "%"
      [] operator = "Equal" -> "=="
      [] operator = "NotEqual" -> "!="
      [] operator = "GreaterThan" -> ">"
      [] operator = "LessThan" -> "<"

DisplayPrefixOperator(operator) ==
    CASE operator = "Not" -> "!"
      [] operator = "Negative" -> "-"

---------------------------------------------------------------------------
(* Object: evaluator/object.rs.                                            *)

Integer(n) == [type |-> "Integer", int |-> n]
Boolean(b) == [type |-> "Boolean", bool |-> b]
Null == [type |-> "Null"]
return_value(value) == [type |-> "ReturnValue", value |-> value]
Function(parameters, body, environment) ==
    [type |-> "Function", parameters |-> parameters, body |-> body,
     environment |-> environment]

\* Result<Object, EvaluationError>
Ok(value) == [ok |-> TRUE, value |-> value]
Err(msg) == [ok |-> FALSE, msg |-> msg]

---------------------------------------------------------------------------
(* Display: the decimal form of an integer, the AST printers and           *)
(* impl Display for Object.                                                *)

Digit(d) == <<"0", "1", "2", "3", "4", "5", "6", "7", "8", "9">>[d + 1]

RECURSIVE NatToString(_)
NatToString(n) ==
    IF n < 10 THEN Digit(n) ELSE NatToString(n \div 10) \o Digit(n % 10)

IntToString(n) == IF n < 0 THEN "-" \o NatToString(0 - n) ELSE NatToString(n)

BoolToString(b) == IF b THEN "true" ELSE "false"

RECURSIVE Join(_, _)
Join(strs, sep) ==
    IF Len(strs) = 0 THEN ""
    ELSE IF Len(strs) = 1 THEN strs[1]
    ELSE strs[1] \o sep \o Join(Tail(strs), sep)

RECURSIVE DisplayExpression(_)
RECURSIVE DisplayStatement(_)
DisplayStatements(statements) ==
    [i \in 1..Len(statements) |-> DisplayStatement(statements[i])]

DisplayExpression(e) ==
    CASE e.kind = "Infix" ->
           "(" \o DisplayExpression(e.lhs) \o " " \o DisplayInfixOperator(e.operator)
               \o " " \o DisplayExpression(e.rhs) \o ")"
      [] e.kind = "Prefix" ->
           "(" \o DisplayPrefixOperator(e.operator) \o DisplayExpression(e.rhs) \o ")"
      [] e.kind = "Bool" -> BoolToString(e.bool)
      [] e.kind = "Int" -> IntToString(e.int)
      [] e.kind = "Identifier" -> e.name
      [] e.kind = "Null" -> "null"
      [] e.kind = "If" ->
           "if " \o DisplayExpression(e.condition) \o " { "
               \o Join(DisplayStatements(e.consequence), " ") \o " } else { "
               \o (IF e.alternative = None THEN ""
                   ELSE Join(DisplayStatements(e.alternative[1]), " "))
               \o " }"
      [] e.kind = "Function" ->
           "fn(" \o Join(e.parameters, ", ") \o ") { "
               \o Join(DisplayStatements(e.body), " ") \o " }"
      [] e.kind = "Call" ->
           DisplayExpression(e.function) \o "("
               \o Join([i \in 1..Len(e.arguments) |-> DisplayExpression(e.arguments[i])],
                       ", ")
               \o ")"

DisplayStatement(s) ==
    CASE s.kind = "Let" -> "let " \o s.name \o " = " \o DisplayExpression(s.value)
      [] s.kind = "Return" -> "return " \o DisplayExpression(s.value)
      [] s.kind = "Expression" -> DisplayExpression(s.expression)

RECURSIVE DisplayObject(_)
DisplayObject(o) ==
    CASE o.type = "Integer" -> IntToString(o.int)
      [] o.type = "Boolean" -> BoolToString(o.bool)
      [] o.type = "ReturnValue" -> DisplayObject(o.value)
      [] o.type = "Null" -> "null"
      [] o.type = "Function" ->
           "fn(" \o Join(o.parameters, ", ") \o ") {\n"
               \o Join([i \in 1..Len(o.body) |-> DisplayStatement(o.body[i]) \o "\n"], "")
               \o "}"

---------------------------------------------------------------------------
(* Environment: evaluator/environment.rs.  The heap of shared environments *)
(* is the sequence envs; an Rc<RefCell<Environment>> is an index into it,  *)
(* and the outer field is 0 for None.                                      *)

EmptyStore == [n \in {} |-> Null]

EmptyEnvironment(outer) == [store |-> EmptyStore, outer |-> outer]

\* Environment::new(): the heap after the allocation; the handle is its length.
new(E) == Append(E, EmptyEnvironment(0))

\* Environment::with_outer(outer)
with_outer(E, outer) == Append(E, EmptyEnvironment(outer))

\* A get that lets the outer chain win over the local store.
RECURSIVE get_outer_first(_, _, _)
get_outer_first(E, self, name) ==
    LET outer == IF E[self].outer # 0 THEN get_outer_first(E, E[self].outer, name)
                 ELSE None
    IN  IF outer # None THEN outer
        ELSE IF name \in DOMAIN E[self].store THEN Some(E[self].store[name])
        ELSE None

\* Environment::get(&self, name) -> Option<Object>
RECURSIVE get(_, _, _)
get(E, self, name) ==
    IF name \in DOMAIN E[self].store
    THEN Some(E[self].store[name])
    ELSE IF E[self].outer # 0
         THEN get(E, E[self].outer, name)
         ELSE None

\* HashMap::insert on one store
Insert(store, name, val) ==
    [n \in (DOMAIN store) \cup {name} |-> IF n = name THEN val ELSE store[n]]

\* A set that writes the binding back into the nearest scope that already
\* binds the name, and into the local store only when none does.
RECURSIVE set_write_back(_, _, _, _)
set_write_back(E, self, name, val) ==
    IF name \in DOMAIN E[self].store \/ E[self].outer = 0
          \/ get(E, E[self].outer, name) = None
    THEN [E EXCEPT ![self].store = Insert(@, name, val)]
    ELSE set_write_back(E, E[self].outer, name, val)

\* Environment::set(&mut self, name, val): the heap after the call
set(E, self, name, val) ==
    [E EXCEPT ![self].store = Insert(@, name, val)]

\* the Option<Object> that set returns (HashMap::insert's previous value)
set_previous(E, self, name) ==
    IF name \in DOMAIN E[self].store THEN Some(E[self].store[name]) ELSE None

---------------------------------------------------------------------------
(* i64 arithmetic at the model's width.  An overflowing + - * or unary -   *)
(* panics in a build with overflow checks and wraps in one without, so     *)
(* both outcomes are possible; i64::MIN / -1, i64::MIN % -1 and a          *)
(* remainder by zero panic in every build.                                 *)

InRange(n) == IntMin <= n /\ n <= IntMax
Wrap(n) == ((n - IntMin) % (2 ^ IntBits)) + IntMin
Abs(n) == IF n < 0 THEN 0 - n ELSE n
\* Rust's / truncates toward zero and % takes the sign of the dividend.
TruncDiv(a, b) ==
    IF (a < 0) # (b < 0) THEN 0 - (Abs(a) \div Abs(b)) ELSE Abs(a) \div Abs(b)
TruncRem(a, b) == a - b * TruncDiv(a, b)

\* What the evaluator's control holds: a node about to be evaluated in an
\* environment, the Result a finished eval call returns, or a panic.
Eval(node, environment) == [m |-> "eval", node |-> node, env |-> environment]
Value(r) == [m |-> "val", r |-> r]
Panic(msg) == [m |-> "panic", msg |-> msg]

Arith(n) ==
    IF InRange(n) THEN {Value(Ok(Integer(n)))}
    ELSE {Panic("arithmetic overflow"), Value(Ok(Integer(Wrap(n))))}

---------------------------------------------------------------------------
(* evaluator/evaluator.rs: the operations on values.                       *)

\* An is_truthy that takes every Integer, zero included, for true.
RECURSIVE is_truthy_no_zero(_)
is_truthy_no_zero(object) ==
    CASE object.type = "Integer" -> [panic |-> FALSE, truthy |-> TRUE]
      [] object.type = "Boolean" -> [panic |-> FALSE, truthy |-> object.bool]
      [] object.type = "Null" -> [panic |-> FALSE, truthy |-> FALSE]
      [] object.type = "ReturnValue" -> is_truthy_no_zero(object.value)
      [] object.type = "Function" -> [panic |-> TRUE]

\* Evaluator::is_truthy; a Function reaches todo!(), which panics.
RECURSIVE is_truthy(_)
is_truthy(object) ==
    CASE object.type = "Integer" -> [panic |-> FALSE, truthy |-> object.int # 0]
      [] object.type = "Boolean" -> [panic |-> FALSE, truthy |-> object.bool]
      [] object.type = "Null" -> [panic |-> FALSE, truthy |-> FALSE]
      [] object.type = "ReturnValue" -> is_truthy(object.value)
      [] object.type = "Function" -> [panic |-> TRUE]

\* Evaluator::eval_bang_operator_prefix_expression
eval_bang_operator_prefix_expression(rhs) ==
    CASE rhs.type = "Boolean" -> {Value(Ok(Boolean(~rhs.bool)))}
      [] rhs.type = "Integer" -> {Value(Ok(Boolean(rhs.int = 0)))}
      [] OTHER -> {Value(Err("invalid operation: !" \o DisplayObject(rhs)))}

\* Evaluator::eval_negative_operator_prefix_expression
eval_negative_operator_prefix_expression(rhs) ==
    CASE rhs.type = "Integer" -> Arith(0 - rhs.int)
      [] OTHER -> {Value(Err("invalid operation: -" \o DisplayObject(rhs)))}

\* the match of Evaluator::eval_prefix_expression
eval_prefix_operator(operator, rhs) ==
    CASE operator = "Not" -> eval_bang_operator_prefix_expression(rhs)
      [] operator = "Negative" -> eval_negative_operator_prefix_expression(rhs)

\* the (InfixOperator::Modulo, Integer, Integer) arm: int1 % int2
eval_modulo(int1, int2) ==
    IF int2 = 0
    THEN {Panic("attempt to calculate the remainder with a divisor of zero")}
    ELSE IF int1 = IntMin /\ int2 = 0 - 1
         THEN {Panic("attempt to calculate the remainder with overflow")}
         ELSE {Value(Ok(Integer(TruncRem(int1, int2))))}

\* the (InfixOperator::Div, Integer, Integer) arm
eval_div(int1, int2) ==
    IF int2 = 0 THEN {Value(Err("cannot divide by zero"))}
    ELSE IF int1 = IntMin /\ int2 = 0 - 1
         THEN {Panic("attempt to divide with overflow")}
         ELSE {Value(Ok(Integer(TruncDiv(int1, int2))))}

\* A match with one more arm: == on two Null operands is true.
eval_infix_operator_null_equal(operator, lhs, rhs) ==
    IF lhs.type = "Integer" /\ rhs.type = "Integer"
    THEN CASE operator = "Add" -> Arith(lhs.int + rhs.int)
           [] operator = "Sub" -> Arith(lhs.int - rhs.int)
           [] operator = "Mult" -> Arith(lhs.int * rhs.int)
           [] operator = "Div" -> eval_div(lhs.int, rhs.int)
           [] operator = "Modulo" -> eval_modulo(lhs.int, rhs.int)
           [] operator = "Equal" -> {Value(Ok(Boolean(lhs.int = rhs.int)))}
           [] operator = "NotEqual" -> {Value(Ok(Boolean(lhs.int # rhs.int)))}
           [] operator = "GreaterThan" -> {Value(Ok(Boolean(lhs.int > rhs.int)))}
           [] operator = "LessThan" -> {Value(Ok(Boolean(lhs.int < rhs.int)))}
    ELSE IF lhs.type = "Boolean" /\ rhs.type = "Boolean" /\ operator = "Equal"
    THEN {Value(Ok(Boolean(lhs.bool = rhs.bool)))}
    ELSE IF lhs.type = "Boolean" /\ rhs.type = "Boolean" /\ operator = "NotEqual"
    THEN {Value(Ok(Boolean(lhs.bool # rhs.bool)))}
    ELSE IF lhs.type = "Null" /\ rhs.type = "Null" /\ operator = "Equal"
    THEN {Value(Ok(Boolean(TRUE)))}
    ELSE {Value(Err("invalid operation: " \o DisplayObject(lhs) \o " "
                    \o DisplayInfixOperator(operator) \o " " \o DisplayObject(rhs)))}

\* the match of Evaluator::eval_infix_expression on (operator, lhs, rhs)
eval_infix_operator(operator, lhs, rhs) ==
    IF lhs.type = "Integer" /\ rhs.type = "Integer"
    THEN CASE operator = "Add" -> Arith(lhs.int + rhs.int)
           [] operator = "Sub" -> Arith(lhs.int - rhs.int)
           [] operator = "Mult" -> Arith(lhs.int * rhs.int)
           [] operator = "Div" -> eval_div(lhs.int, rhs.int)
           [] operator = "Modulo" -> eval_modulo(lhs.int, rhs.int)
           [] operator = "Equal" -> {Value(Ok(Boolean(lhs.int = rhs.int)))}
           [] operator = "NotEqual" -> {Value(Ok(Boolean(lhs.int # rhs.int)))}
           [] operator = "GreaterThan" -> {Value(Ok(Boolean(lhs.int > rhs.int)))}
           [] operator = "LessThan" -> {Value(Ok(Boolean(lhs.int < rhs.int)))}
    ELSE IF lhs.type = "Boolean" /\ rhs.type = "Boolean" /\ operator = "Equal"
    THEN {Value(Ok(Boolean(lhs.bool = rhs.bool)))}
    ELSE IF lhs.type = "Boolean" /\ rhs.type = "Boolean" /\ operator = "NotEqual"
    THEN {Value(Ok(Boolean(lhs.bool # rhs.bool)))}
    ELSE {Value(Err("invalid operation: " \o DisplayObject(lhs) \o " "
                    \o DisplayInfixOperator(operator) \o " " \o DisplayObject(rhs)))}

\* Evaluator::eval_identifier
eval_identifier(E, identifier, environment) ==
    LET found == get(E, environment, identifier)
    IN  IF found # None THEN Ok(found[1])
        ELSE Err("identifier not found: " \o identifier)

---------------------------------------------------------------------------
(* The frames of the stack: one per suspended call of the evaluator, with  *)
(* the locals that call still needs.                                       *)

Top == stack[Len(stack)]
Pop == SubSeq(stack, 1, Len(stack) - 1)
Returned == ctl.m = "val" /\ stack # <<>>
ReturnedOk == Returned /\ ctl.r.ok
Evaluating(kinds) == ctl.m = "eval" /\ ctl.node.kind \in kinds
Done == stack = <<>> /\ ctl.m \in {"val", "panic"}

\* eval_statements inside its loop: the statements, the position of the one
\* being evaluated, and result.
FrameStatements(statements, idx, environment, result) ==
    [f |-> "eval_statements", statements |-> statements, idx |-> idx,
     environment |-> environment, result |-> result]
FrameReturn == [f |-> "return"]
FrameLet(name, environment) == [f |-> "let", name |-> name, environment |-> environment]
FrameIf(consequence, alternative, environment) ==
    [f |-> "if", consequence |-> consequence, alternative |-> alternative,
     environment |-> environment]
FramePrefix(operator) == [f |-> "prefix", operator |-> operator]
FrameInfixLhs(operator, rhs, environment) ==
    [f |-> "infix_lhs", operator |-> operator, rhs |-> rhs, environment |-> environment]
FrameInfixRhs(operator, lhs) == [f |-> "infix_rhs", operator |-> operator, lhs |-> lhs]
\* eval_call while the function expression is evaluated
FrameCallFunction(arguments, environment) ==
    [f |-> "call_function", arguments |-> arguments, environment |-> environment]
\* eval_call inside its argument loop.  call_environment is the parameter
\* `environment`; environment is the binding of the same name that the
\* destructuring of the function value introduces and that hides it.
FrameCallArgument(parameters, arguments, idx, call_environment, environment, local_env, body) ==
    [f |-> "call_argument", parameters |-> parameters, arguments |-> arguments,
     idx |-> idx, call_environment |-> call_environment,
     environment |-> environment, local_env |-> local_env, body |-> body]
\* eval_call while the body is evaluated
FrameCallBody(parameters, call_environment, environment, local_env) ==
    [f |-> "call_body", parameters |-> parameters,
     call_environment |-> call_environment, environment |-> environment,
     local_env |-> local_env]

---------------------------------------------------------------------------
(* Evaluator::eval_statements                                              *)

\* Entering the loop: an empty list falls through to result.unwrap_or(Null).
eval_statements(statements, environment, stk) ==
    IF Len(statements) = 0
    THEN [ctl |-> Value(Ok(Null)), stack |-> stk]
    ELSE [ctl |-> Eval(statements[1], environment),
          stack |-> Append(stk, FrameStatements(statements, 1, environment, None))]

\* A loop that keeps going after a ReturnValue.
eval_statements_no_stop(fr, evaluated, stk) ==
    IF fr.idx < Len(fr.statements)
    THEN [ctl |-> Eval(fr.statements[fr.idx + 1], fr.environment),
          stack |-> Append(stk, FrameStatements(fr.statements, fr.idx + 1,
                                                fr.environment, Some(evaluated)))]
    ELSE [ctl |-> Value(Ok(evaluated)), stack |-> stk]

\* One turn of the loop once the statement's value `evaluated` is there; stk
\* is the stack below the loop's own frame fr.
eval_statements_loop(fr, evaluated, stk) ==
    IF evaluated.type = "ReturnValue"
    THEN [ctl |-> Value(Ok(evaluated)), stack |-> stk]
    ELSE IF fr.idx < Len(fr.statements)
    THEN [ctl |-> Eval(fr.statements[fr.idx + 1], fr.environment),
          stack |-> Append(stk, FrameStatements(fr.statements, fr.idx + 1,
                                                fr.environment, Some(evaluated)))]
    ELSE [ctl |-> Value(Ok(evaluated)), stack |-> stk]

\* eval on Node::Program, and eval_statement on Statement::Block
EvalStatements ==
    /\ Evaluating({"Program", "Block"})
    /\ LET next == eval_statements(ctl.node.statements, ctl.env, stack)
       IN  ctl' = next.ctl /\ stack' = next.stack
    /\ UNCHANGED <<source, lexer, parser, program, envs, lastOp>>

EvalStatementsLoop ==
    /\ ReturnedOk /\ Top.f = "eval_statements"
    /\ LET next == eval_statements_loop(Top, ctl.r.value, Pop)
       IN  ctl' = next.ctl /\ stack' = next.stack
    /\ UNCHANGED <<source, lexer, parser, program, envs, lastOp>>

---------------------------------------------------------------------------
(* Evaluator::eval_statement, eval_let_statement                           *)

EvalReturn ==
    /\ Evaluating({"Return"})
    /\ ctl' = Eval(ctl.node.value, ctl.env)
    /\ stack' = Append(stack, FrameReturn)
    /\ UNCHANGED <<source, lexer, parser, program, envs, lastOp>>

ReturnWrap ==
    /\ ReturnedOk /\ Top.f = "return"
    /\ ctl' = Value(Ok(return_value(ctl.r.value)))
    /\ stack' = Pop
    /\ UNCHANGED <<source, lexer, parser, program, envs, lastOp>>

EvalExpressionStatement ==
    /\ Evaluating({"Expression"})
    /\ ctl' = Eval(ctl.node.expression, ctl.env)
    /\ UNCHANGED <<source, lexer, parser, program, envs, stack, lastOp>>

EvalLet ==
    /\ Evaluating({"Let"})
    /\ ctl' = Eval(ctl.node.value, ctl.env)
    /\ stack' = Append(stack, FrameLet(ctl.node.name, ctl.env))
    /\ UNCHANGED <<source, lexer, parser, program, envs, lastOp>>

LetBind ==
    /\ ReturnedOk /\ Top.f = "let"
    /\ envs' = set(envs, Top.environment, Top.name, ctl.r.value)
    /\ ctl' = Value(Ok(ctl.r.value))
    /\ stack' = Pop
    /\ UNCHANGED <<source, lexer, parser, program, lastOp>>

---------------------------------------------------------------------------
(* Evaluator::eval_expression and the functions it dispatches to           *)

EvalLiteral ==
    /\ Evaluating({"Int", "Bool", "Null"})
    /\ ctl' = Value(Ok(CASE ctl.node.kind = "Int" -> Integer(ctl.node.int)
                         [] ctl.node.kind = "Bool" -> Boolean(ctl.node.bool)
                         [] ctl.node.kind = "Null" -> Null))
    /\ UNCHANGED <<source, lexer, parser, program, envs, stack, lastOp>>

EvalIdentifier ==
    /\ Evaluating({"Identifier"})
    /\ ctl' = Value(eval_identifier(envs, ctl.node.name, ctl.env))
    /\ UNCHANGED <<source, lexer, parser, program, envs, stack, lastOp>>

\* Evaluator::eval_function: the closure's capture frame
EvalFunction ==
    /\ Evaluating({"Function"})
    /\ Len(envs) < MaxEnvs
    /\ envs' = with_outer(envs, ctl.env)
    /\ ctl' = Value(Ok(Function(ctl.node.parameters, ctl.node.body, Len(envs) + 1)))
    /\ UNCHANGED <<source, lexer, parser, program, stack, lastOp>>

\* Evaluator::eval_if_expression
EvalIf ==
    /\ Evaluating({"If"})
    /\ ctl' = Eval(ctl.node.condition, ctl.env)
    /\ stack' = Append(stack, FrameIf(ctl.node.consequence, ctl.node.alternative,
                                      ctl.env))
    /\ UNCHANGED <<source, lexer, parser, program, envs, lastOp>>

\* An if that evaluates its blocks in a scope of their own.
IfBranchScoped ==
    /\ ReturnedOk /\ Top.f = "if"
    /\ Len(envs) < MaxEnvs
    /\ envs' = with_outer(envs, Top.environment)
    /\ LET truthy == is_truthy(ctl.r.value)
           next == IF truthy.truthy
                   THEN eval_statements(Top.consequence, Len(envs) + 1, Pop)
                   ELSE IF Top.alternative # None
                   THEN eval_statements(Top.alternative[1], Len(envs) + 1, Pop)
                   ELSE [ctl |-> Value(Ok(Null)), stack |-> Pop]
       IN  IF truthy.panic
           THEN ctl' = Panic("not yet implemented") /\ stack' = <<>>
           ELSE ctl' = next.ctl /\ stack' = next.stack
    /\ UNCHANGED <<source, lexer, parser, program, lastOp>>

IfBranch ==
    /\ ReturnedOk /\ Top.f = "if"
    /\ LET truthy == is_truthy(ctl.r.value)
           next == IF truthy.truthy
                   THEN eval_statements(Top.consequence, Top.environment, Pop)
                   ELSE IF Top.alternative # None
                   THEN eval_statements(Top.alternative[1], Top.environment, Pop)
                   ELSE [ctl |-> Value(Ok(Null)), stack |-> Pop]
       IN  IF truthy.panic
           THEN ctl' = Panic("not yet implemented") /\ stack' = <<>>
           ELSE ctl' = next.ctl /\ stack' = next.stack
    /\ UNCHANGED <<source, lexer, parser, program, envs, lastOp>>

\* Evaluator::eval_prefix_expression
EvalPrefix ==
    /\ Evaluating({"Prefix"})
    /\ ctl' = Eval(ctl.node.rhs, ctl.env)
    /\ stack' = Append(stack, FramePrefix(ctl.node.operator))
    /\ UNCHANGED <<source, lexer, parser, program, envs, lastOp>>

PrefixApply ==
    /\ ReturnedOk /\ Top.f = "prefix"
    /\ \E out \in eval_prefix_operator(Top.operator, ctl.r.value) :
          /\ ctl' = out
          /\ stack' = IF out.m = "panic" THEN <<>> ELSE Pop
    /\ UNCHANGED <<source, lexer, parser, program, envs, lastOp>>

\* Evaluator::eval_infix_expression
EvalInfix ==
    /\ Evaluating({"Infix"})
    /\ ctl' = Eval(ctl.node.lhs, ctl.env)
    /\ stack' = Append(stack, FrameInfixLhs(ctl.node.operator, ctl.node.rhs, ctl.env))
    /\ UNCHANGED <<source, lexer, parser, program, envs, lastOp>>

InfixRhs ==
    /\ ReturnedOk /\ Top.f = "infix_lhs"
    /\ ctl' = Eval(Top.rhs, Top.environment)
    /\ stack' = Append(Pop, FrameInfixRhs(Top.operator, ctl.r.value))
    /\ UNCHANGED <<source, lexer, parser, program, envs, lastOp>>

InfixApply ==
    /\ ReturnedOk /\ Top.f = "infix_rhs"
    /\ \E out \in eval_infix_operator(Top.operator, Top.lhs, ctl.r.value) :
          /\ ctl' = out
          /\ stack' = IF out.m = "panic" THEN <<>> ELSE Pop
    /\ UNCHANGED <<source, lexer, parser, program, envs, lastOp>>

---------------------------------------------------------------------------
(* Evaluator::eval_call                                                    *)

\* Dynamic scoping: the fresh scope hangs off the caller's environment.
local_env_outer_of_caller(call_environment, function_environment) == call_environment

\* The outer of local_env: by line 150 `environment` is the captured
\* environment of the function value.
local_env_outer(call_environment, function_environment) == function_environment

\* The environment the arguments are evaluated in: at line 153 `environment`
\* is again the name bound by the destructuring at line 138, which hides the
\* parameter of eval_call.
argument_environment(call_environment, function_environment) == function_environment

\* The match on the body's value: a ReturnValue is unwrapped once.
unwrap_return_value(value) == IF value.type = "ReturnValue" THEN value.value ELSE value

\* After the last argument: evaluate Statement::Block(body) in local_env.
call_body(fr, stk) ==
    [ctl |-> Eval(StmtBlock(fr.body), fr.local_env),
     stack |-> Append(stk, FrameCallBody(fr.parameters, fr.call_environment,
                                         fr.environment, fr.local_env))]

\* The argument loop at position idx, or the body once the zip is exhausted.
call_arguments(fr, stk) ==
    IF fr.idx <= Len(fr.arguments)
    THEN [ctl |-> Eval(fr.arguments[fr.idx],
                       argument_environment(fr.call_environment, fr.environment)),
          stack |-> Append(stk, fr)]
    ELSE call_body(fr, stk)

EvalCall ==
    /\ Evaluating({"Call"})
    /\ ctl' = Eval(ctl.node.function, ctl.env)
    /\ stack' = Append(stack, FrameCallFunction(ctl.node.arguments, ctl.env))
    /\ UNCHANGED <<source, lexer, parser, program, envs, lastOp>>

\* Lines 138-150: the function test, the arity test, the fresh local_env.
CallApply ==
    /\ ReturnedOk /\ Top.f = "call_function"
    /\ LET function == ctl.r.value
           arguments == Top.arguments
       IN  IF function.type # "Function"
           THEN /\ ctl' = Value(Err("not a function: " \o DisplayObject(function)))
                /\ stack' = Pop
                /\ envs' = envs
           ELSE IF Len(function.parameters) # Len(arguments)
           THEN /\ ctl' = Value(Err("wrong number of arguments: got "
                                    \o IntToString(Len(arguments))
                                    \o ", but function wants "
                                    \o IntToString(Len(function.parameters))))
                /\ stack' = Pop
                /\ envs' = envs
           ELSE /\ Len(envs) < MaxEnvs
                /\ envs' = with_outer(envs, local_env_outer(Top.environment,
                                                            function.environment))
                /\ LET next == call_arguments(
                                   FrameCallArgument(function.parameters, arguments, 1,
                                                     Top.environment,
                                                     function.environment,
                                                     Len(envs) + 1, function.body),
                                   Pop)
                   IN  ctl' = next.ctl /\ stack' = next.stack
    /\ UNCHANGED <<source, lexer, parser, program, lastOp>>

\* Line 155 and the next turn of the loop.
CallBindArgument ==
    /\ ReturnedOk /\ Top.f = "call_argument"
    /\ envs' = set(envs, Top.local_env, Top.parameters[Top.idx], ctl.r.value)
    /\ LET next == call_arguments([Top EXCEPT !.idx = @ + 1], Pop)
       IN  ctl' = next.ctl /\ stack' = next.stack
    /\ UNCHANGED <<source, lexer, parser, program, lastOp>>

\* Lines 158-163.
CallReturn ==
    /\ ReturnedOk /\ Top.f = "call_body"
    /\ ctl' = Value(Ok(unwrap_return_value(ctl.r.value)))
    /\ stack' = Pop
    /\ UNCHANGED <<source, lexer, parser, program, envs, lastOp>>

\* A statement loop that drops the error of a statement and goes on with the
\* next one.
PropagateErrorSwallowed ==
    /\ Returned /\ ~ctl.r.ok
    /\ IF Top.f = "eval_statements" /\ Top.idx < Len(Top.statements)
       THEN /\ ctl' = Eval(Top.statements[Top.idx + 1], Top.environment)
            /\ stack' = Append(Pop, [Top EXCEPT !.idx = @ + 1])
       ELSE /\ ctl' = ctl
            /\ stack' = Pop
    /\ UNCHANGED <<source, lexer, parser, program, envs, lastOp>>

\* The `?` after every nested eval: an Err leaves the suspended call at once.
PropagateError ==
    /\ Returned /\ ~ctl.r.ok
    /\ ctl' = ctl
    /\ stack' = Pop
    /\ UNCHANGED <<source, lexer, parser, program, envs, lastOp>>

---------------------------------------------------------------------------
(* The programs evaluated: the ASTs parse_program returns for the sources  *)
(* quoted in the comments.                                                 *)

\* let f = fn(x){ x }; let g = fn(y){ f(y) }; g(5)
ProgArgumentOfCaller ==
    << StmtLet("f", ExprFunction(<<"x">>, <<StmtExpression(ExprIdentifier("x"))>>)),
       StmtLet("g", ExprFunction(<<"y">>,
           <<StmtExpression(ExprCall(ExprIdentifier("f"), <<ExprIdentifier("y")>>))>>)),
       StmtExpression(ExprCall(ExprIdentifier("g"), <<ExprInt(5)>>)) >>

\* let newAdder = fn(x){ fn(y){ x + y } }; let addTwo = newAdder(2); addTwo(2)
ProgNewAdder ==
    << StmtLet("newAdder", ExprFunction(<<"x">>,
           <<StmtExpression(ExprFunction(<<"y">>,
               <<StmtExpression(ExprInfix(ExprIdentifier("x"), ExprIdentifier("y"),
                                          "Add"))>>))>>)),
       StmtLet("addTwo", ExprCall(ExprIdentifier("newAdder"), <<ExprInt(2)>>)),
       StmtExpression(ExprCall(ExprIdentifier("addTwo"), <<ExprInt(2)>>)) >>

\* let x = 1; let f = fn(){ x }; let g = fn(x){ f() }; g(2)
ProgLexicalScope ==
    << StmtLet("x", ExprInt(1)),
       StmtLet("f", ExprFunction(<<>>, <<StmtExpression(ExprIdentifier("x"))>>)),
       StmtLet("g", ExprFunction(<<"x">>,
           <<StmtExpression(ExprCall(ExprIdentifier("f"), <<>>))>>)),
       StmtExpression(ExprCall(ExprIdentifier("g"), <<ExprInt(2)>>)) >>

\* let f = fn(){ a }; let a = 5; f()
ProgBoundAfterCreation ==
    << StmtLet("f", ExprFunction(<<>>, <<StmtExpression(ExprIdentifier("a"))>>)),
       StmtLet("a", ExprInt(5)),
       StmtExpression(ExprCall(ExprIdentifier("f"), <<>>)) >>

\* let a = 1; let f = fn(){ a }; let a = 2; f()
ProgReboundAfterCreation ==
    << StmtLet("a", ExprInt(1)),
       StmtLet("f", ExprFunction(<<>>, <<StmtExpression(ExprIdentifier("a"))>>)),
       StmtLet("a", ExprInt(2)),
       StmtExpression(ExprCall(ExprIdentifier("f"), <<>>)) >>

\* let f = fn(x){ a }; f(if (true) { let a = 2; }); let a = 1; f(0)
ProgLetInArgument ==
    << StmtLet("f", ExprFunction(<<"x">>, <<StmtExpression(ExprIdentifier("a"))>>)),
       StmtExpression(ExprCall(ExprIdentifier("f"),
           <<ExprIf(ExprBool(TRUE), <<StmtLet("a", ExprInt(2))>>, None)>>)),
       StmtLet("a", ExprInt(1)),
       StmtExpression(ExprCall(ExprIdentifier("f"), <<ExprInt(0)>>)) >>

\* let f = fn(n){ if (n == 0) { 0 } else { f(n - 1) } }; f(k)
ProgRecursion(k) ==
    << StmtLet("f", ExprFunction(<<"n">>,
           <<StmtExpression(ExprIf(
               ExprInfix(ExprIdentifier("n"), ExprInt(0), "Equal"),
               <<StmtExpression(ExprInt(0))>>,
               Some(<<StmtExpression(ExprCall(ExprIdentifier("f"),
                   <<ExprInfix(ExprIdentifier("n"), ExprInt(1), "Sub")>>))>>)))>>)),
       StmtExpression(ExprCall(ExprIdentifier("f"), <<ExprInt(k)>>)) >>

\* fn(){ if (true) { return 10; } return 1; }()
ProgReturnInIf ==
    << StmtExpression(ExprCall(ExprFunction(<<>>,
           << StmtExpression(ExprIf(ExprBool(TRUE), <<StmtReturn(ExprInt(10))>>, None)),
              StmtReturn(ExprInt(1)) >>), <<>>)) >>

\* fn(){ return if (true) { return 1; }; }()
ProgReturnOfIf ==
    << StmtExpression(ExprCall(ExprFunction(<<>>,
           << StmtReturn(ExprIf(ExprBool(TRUE), <<StmtReturn(ExprInt(1))>>, None)) >>),
           <<>>)) >>

\* 9; return 2 * 5; 9;
ProgReturnInMiddle ==
    << StmtExpression(ExprInt(9)),
       StmtReturn(ExprInfix(ExprInt(2), ExprInt(5), "Mult")),
       StmtExpression(ExprInt(9)) >>

\* return 1; let a = 2; foobar;
ProgReturnThenLet ==
    << StmtReturn(ExprInt(1)), StmtLet("a", ExprInt(2)),
       StmtExpression(ExprIdentifier("foobar")) >>

\* if (10 > 1) { if (10 > 1) { return 10; } return 1; }
ProgNestedIfReturn ==
    << StmtExpression(ExprIf(ExprInfix(ExprInt(10), ExprInt(1), "GreaterThan"),
           << StmtExpression(ExprIf(ExprInfix(ExprInt(10), ExprInt(1), "GreaterThan"),
                  <<StmtReturn(ExprInt(10))>>, None)),
              StmtReturn(ExprInt(1)) >>, None)) >>

\* let a = if (true) { return 10; };
ProgLetOfReturn ==
    << StmtLet("a", ExprIf(ExprBool(TRUE), <<StmtReturn(ExprInt(10))>>, None)) >>

\* fn(x){ x }(if (true) { return 1; })
ProgArgumentOfReturn ==
    << StmtExpression(ExprCall(
           ExprFunction(<<"x">>, <<StmtExpression(ExprIdentifier("x"))>>),
           <<ExprIf(ExprBool(TRUE), <<StmtReturn(ExprInt(1))>>, None)>>)) >>

\* let add = fn(x, y) { x + y; }; add(5 + 5, add(5, 5));
ProgApplyFunction ==
    << StmtLet("add", ExprFunction(<<"x", "y">>,
           <<StmtExpression(ExprInfix(ExprIdentifier("x"), ExprIdentifier("y"),
                                      "Add"))>>)),
       StmtExpression(ExprCall(ExprIdentifier("add"),
           << ExprInfix(ExprInt(5), ExprInt(5), "Add"),
              ExprCall(ExprIdentifier("add"), <<ExprInt(5), ExprInt(5)>>) >>)) >>

\* 5 + true; 5;
ProgErrorFirst ==
    << StmtExpression(ExprInfix(ExprInt(5), ExprBool(TRUE), "Add")),
       StmtExpression(ExprInt(5)) >>

\* !null
ProgNotNull == << StmtExpression(ExprPrefix(ExprNull, "Not")) >>

\* fn(x){ x }(1, 2)  and  5(1)
ProgWrongArity ==
    << StmtExpression(ExprCall(
           ExprFunction(<<"x">>, <<StmtExpression(ExprIdentifier("x"))>>),
           <<ExprInt(1), ExprInt(2)>>)) >>
ProgNotAFunction == << StmtExpression(ExprCall(ExprInt(5), <<ExprInt(1)>>)) >>

\* if (fn(x){ x }) { 1 } else { 2 }
ProgIfFunction ==
    << StmtExpression(ExprIf(
           ExprFunction(<<"x">>, <<StmtExpression(ExprIdentifier("x"))>>),
           <<StmtExpression(ExprInt(1))>>, Some(<<StmtExpression(ExprInt(2))>>))) >>

\* fn(x){ x }(foo, 1)
ProgWrongArityFailingArgument ==
    << StmtExpression(ExprCall(
           ExprFunction(<<"x">>, <<StmtExpression(ExprIdentifier("x"))>>),
           <<ExprIdentifier("foo"), ExprInt(1)>>)) >>

\* if (true) { let a = 1; }; a
ProgLetInIf ==
    << StmtExpression(ExprIf(ExprBool(TRUE), <<StmtLet("a", ExprInt(1))>>, None)),
       StmtExpression(ExprIdentifier("a")) >>

\* let a = 1; if (false) { 0 } else { let a = 2; let b = a; }; a + b
ProgLetInElse ==
    << StmtLet("a", ExprInt(1)),
       StmtExpression(ExprIf(ExprBool(FALSE), <<StmtExpression(ExprInt(0))>>,
           Some(<<StmtLet("a", ExprInt(2)), StmtLet("b", ExprIdentifier("a"))>>))),
       StmtExpression(ExprInfix(ExprIdentifier("a"), ExprIdentifier("b"), "Add")) >>

\* let x = 1; let f = fn(x){ let y = x; y }; f(2); x
ProgCallIsolation ==
    << StmtLet("x", ExprInt(1)),
       StmtLet("f", ExprFunction(<<"x">>,
           <<StmtLet("y", ExprIdentifier("x")), StmtExpression(ExprIdentifier("y"))>>)),
       StmtExpression(ExprCall(ExprIdentifier("f"), <<ExprInt(2)>>)),
       StmtExpression(ExprIdentifier("x")) >>

\* let x = 1; let f = fn(x){ let y = x; y }; f(2); y
ProgCallLocalUnbound ==
    << StmtLet("x", ExprInt(1)),
       StmtLet("f", ExprFunction(<<"x">>,
           <<StmtLet("y", ExprIdentifier("x")), StmtExpression(ExprIdentifier("y"))>>)),
       StmtExpression(ExprCall(ExprIdentifier("f"), <<ExprInt(2)>>)),
       StmtExpression(ExprIdentifier("y")) >>

\* let f = fn(x){ if (x) { let y = 1; } y }; f(true); f(false)
ProgCallTwice ==
    << StmtLet("f", ExprFunction(<<"x">>,
           << StmtExpression(ExprIf(ExprIdentifier("x"), <<StmtLet("y", ExprInt(1))>>,
                                    None)),
              StmtExpression(ExprIdentifier("y")) >>)),
       StmtExpression(ExprCall(ExprIdentifier("f"), <<ExprBool(TRUE)>>)),
       StmtExpression(ExprCall(ExprIdentifier("f"), <<ExprBool(FALSE)>>)) >>

\* let f = fn(n){ if (n) { f(if (true) { let z = 0; z }) } else { z } }; f(1)
ProgLetInArgumentOfBody ==
    << StmtLet("f", ExprFunction(<<"n">>,
           <<StmtExpression(ExprIf(ExprIdentifier("n"),
               <<StmtExpression(ExprCall(ExprIdentifier("f"),
                   <<ExprIf(ExprBool(TRUE),
                            << StmtLet("z", ExprInt(0)),
                               StmtExpression(ExprIdentifier("z")) >>, None)>>))>>,
               Some(<<StmtExpression(ExprIdentifier("z"))>>)))>>)),
       StmtExpression(ExprCall(ExprIdentifier("f"), <<ExprInt(1)>>)) >>

ExamplePrograms ==
    { ProgArgumentOfCaller, ProgNewAdder, ProgLexicalScope, ProgBoundAfterCreation,
      ProgReboundAfterCreation, ProgLetInArgument, ProgReturnInIf, ProgReturnOfIf,
      ProgReturnInMiddle, ProgReturnThenLet, ProgNestedIfReturn, ProgLetOfReturn,
      ProgArgumentOfReturn, ProgApplyFunction, ProgErrorFirst, ProgNotNull,
      ProgWrongArity, ProgNotAFunction, ProgIfFunction,
      ProgWrongArityFailingArgument, ProgLetInIf, ProgLetInElse, ProgCallIsolation,
      ProgCallLocalUnbound, ProgCallTwice, ProgLetInArgumentOfBody, <<>> }

RecursionPrograms == {ProgRecursion(k) : k \in 0..MaxK}

\* a / 0 and a % 0 for a in {0, 1, 7, -1, -7}
Dividends ==
    {ExprInt(0), ExprInt(1), ExprInt(7), ExprPrefix(ExprInt(1), "Negative"),
     ExprPrefix(ExprInt(7), "Negative")}
ZeroDivisorPrograms ==
    {<<StmtExpression(ExprInfix(a, ExprInt(0), operator))>> :
        a \in Dividends, operator \in {"Div", "Modulo"}}

\* Statement lists of up to two statements, each a let, a return or a bare
\* expression over a literal, an identifier and ifs whose blocks return; every
\* list is evaluated as a Program and as the body of a called function.
ListExpressions ==
    { ExprInt(1), ExprIdentifier("a"),
      ExprIf(ExprBool(TRUE), <<StmtReturn(ExprInt(2))>>, None),
      ExprIf(ExprBool(FALSE), <<StmtReturn(ExprInt(2))>>,
             Some(<<StmtExpression(ExprInt(3))>>)),
      ExprIf(ExprInt(1),
             <<StmtExpression(ExprIf(ExprBool(TRUE), <<StmtReturn(ExprInt(4))>>,
                                     None)),
               StmtExpression(ExprInt(5))>>, None) }
ListStatements ==
    {StmtLet("a", e) : e \in ListExpressions}
        \cup {StmtReturn(e) : e \in ListExpressions}
        \cup {StmtExpression(e) : e \in ListExpressions}
StatementLists ==
    {<<>>} \cup {<<s>> : s \in ListStatements}
        \cup {<<s, t>> : s \in ListStatements, t \in ListStatements}
ListPrograms ==
    StatementLists
        \cup {<<StmtExpression(ExprCall(ExprFunction(<<>>, body), <<>>))>> :
                 body \in StatementLists}

\* Closures called from the scope that created them and from inside another
\* function whose parameter x hides the global x:
\*   let x = 1; let f = fn(PARAMS){ BODY }; [let a = 3;] f(ARGS)
\*   let x = 1; let f = fn(PARAMS){ BODY }; [let a = 3;] let g = fn(x){ f(ARGS) }; g(2)
ClosureBodies ==
    { <<StmtExpression(ExprIdentifier("x"))>>,
      <<StmtExpression(ExprIdentifier("a"))>>,
      <<StmtReturn(ExprIdentifier("x"))>>,
      <<StmtLet("a", ExprIdentifier("x")), StmtExpression(ExprIdentifier("a"))>> }
ClosureArguments == {ExprInt(2), ExprIdentifier("x"), ExprIdentifier("a")}
ClosureSignatures ==
    {[parameters |-> <<>>, arguments |-> <<>>]}
        \cup {[parameters |-> <<p>>, arguments |-> <<e>>] :
                 p \in {"x", "a"}, e \in ClosureArguments}
ClosurePrograms ==
    UNION {
        { <<StmtLet("x", ExprInt(1)),
            StmtLet("f", ExprFunction(sig.parameters, body))>>
              \o between
              \o <<StmtExpression(ExprCall(ExprIdentifier("f"), sig.arguments))>>,
          <<StmtLet("x", ExprInt(1)),
            StmtLet("f", ExprFunction(sig.parameters, body))>>
              \o between
              \o <<StmtLet("g", ExprFunction(<<"x">>,
                      <<StmtExpression(ExprCall(ExprIdentifier("f"),
                                                sig.arguments))>>)),
                   StmtExpression(ExprCall(ExprIdentifier("g"), <<ExprInt(2)>>))>> } :
        sig \in ClosureSignatures, body \in ClosureBodies,
        between \in {<<>>, <<StmtLet("a", ExprInt(3))>>} }

\* if (COND) { let c = 1; 10 } and if (COND) { let c = 1; 10 } else { let d = 1; 20 }
\* for conditions of every kind of value: integers, booleans, null, and values
\* wrapped by a return inside the condition.
IfConditions ==
    { ExprInt(0), ExprInt(1), ExprInt(7), ExprPrefix(ExprInt(1), "Negative"),
      ExprBool(TRUE), ExprBool(FALSE), ExprNull,
      ExprInfix(ExprInt(1), ExprInt(2), "LessThan"),
      ExprInfix(ExprInt(1), ExprInt(1), "Sub"),
      ExprIf(ExprBool(TRUE), <<StmtReturn(ExprInt(0))>>, None),
      ExprIf(ExprBool(TRUE), <<StmtReturn(ExprInt(3))>>, None),
      ExprIf(ExprBool(TRUE), <<StmtReturn(ExprBool(FALSE))>>, None),
      ExprIf(ExprBool(TRUE), <<StmtReturn(ExprBool(TRUE))>>, None),
      ExprIf(ExprBool(TRUE), <<StmtReturn(ExprNull)>>, None),
      ExprIf(ExprBool(FALSE), <<StmtExpression(ExprInt(1))>>, None) }
IfConsequence == <<StmtLet("c", ExprInt(1)), StmtExpression(ExprInt(10))>>
IfAlternative == <<StmtLet("d", ExprInt(1)), StmtExpression(ExprInt(20))>>
ProgIf(condition, alternative) ==
    << StmtExpression(ExprIf(condition, IfConsequence, alternative)) >>
IfPrograms ==
    {ProgIf(condition, alternative) :
        condition \in IfConditions, alternative \in {None, Some(IfAlternative)}}

\* Programs whose first error arises in each position an eval call can fail
\* in, followed in evaluation order by something that would bind b if it were
\* evaluated.  FAIL is an unbound identifier or `true + false`; EFFECT is
\* `if (true) { let b = 1; }`.
FailingExpressions ==
    { [expression |-> ExprIdentifier("foobar"), msg |-> "identifier not found: foobar"],
      [expression |-> ExprInfix(ExprBool(TRUE), ExprBool(FALSE), "Add"),
       msg |-> "invalid operation: true + false"] }
EffectExpression == ExprIf(ExprBool(TRUE), <<StmtLet("b", ExprInt(1))>>, None)
EffectStatement == StmtLet("b", ExprInt(2))
ErrorContexts(fail) ==
    { \* let a = 1; FAIL; let b = 2;
      <<StmtLet("a", ExprInt(1)), StmtExpression(fail), EffectStatement>>,
      \* let b = FAIL;
      <<StmtLet("b", fail)>>,
      \* return FAIL; let b = 2;
      <<StmtReturn(fail), EffectStatement>>,
      \* FAIL + EFFECT
      <<StmtExpression(ExprInfix(fail, EffectExpression, "Add"))>>,
      \* 1 + FAIL; let b = 2;
      <<StmtExpression(ExprInfix(ExprInt(1), fail, "Add")), EffectStatement>>,
      \* !FAIL; let b = 2;   and   -FAIL; let b = 2;
      <<StmtExpression(ExprPrefix(fail, "Not")), EffectStatement>>,
      <<StmtExpression(ExprPrefix(fail, "Negative")), EffectStatement>>,
      \* if (FAIL) { let b = 1; } else { let b = 2; }
      <<StmtExpression(ExprIf(fail, <<StmtLet("b", ExprInt(1))>>,
                              Some(<<EffectStatement>>)))>>,
      \* FAIL(EFFECT)
      <<StmtExpression(ExprCall(fail, <<EffectExpression>>))>>,
      \* fn(x, y){ let b = 1; }(FAIL, EFFECT)
      <<StmtExpression(ExprCall(
            ExprFunction(<<"x", "y">>, <<StmtLet("b", ExprInt(1))>>),
            <<fail, EffectExpression>>))>>,
      \* fn(){ FAIL; let b = 1; }(); let b = 2;
      <<StmtExpression(ExprCall(
            ExprFunction(<<>>, <<StmtExpression(fail), StmtLet("b", ExprInt(1))>>),
            <<>>)), EffectStatement>>,
      \* if (10 > 1) { if (10 > 1) { return FAIL; } return 1; }
      <<StmtExpression(ExprIf(ExprInfix(ExprInt(10), ExprInt(1), "GreaterThan"),
            << StmtExpression(ExprIf(ExprInfix(ExprInt(10), ExprInt(1), "GreaterThan"),
                   <<StmtReturn(fail)>>, None)),
               StmtReturn(ExprInt(1)) >>, None))>> }
ErrorPrograms == UNION {ErrorContexts(fail.expression) : fail \in FailingExpressions}

\* L op R for every operator and operands of every kind of value: integers,
\* booleans, null, a function and a value wrapped by a return.
InfixOperators ==
    {"Add", "Sub", "Mult", "Div", "Modulo", "Equal", "NotEqual", "GreaterThan",
     "LessThan"}
Operands ==
    { ExprInt(0), ExprInt(5), ExprPrefix(ExprInt(1), "Negative"), ExprBool(TRUE),
      ExprBool(FALSE), ExprNull,
      ExprFunction(<<"x">>, <<StmtExpression(ExprIdentifier("x"))>>),
      ExprIf(ExprBool(TRUE), <<StmtReturn(ExprInt(1))>>, None) }
ProgInfix(lhs, rhs, operator) == <<StmtExpression(ExprInfix(lhs, rhs, operator))>>
InfixPrograms ==
    {ProgInfix(lhs, rhs, operator) :
        lhs \in Operands, rhs \in Operands, operator \in InfixOperators}

\* Integer expressions: literals, unary minus and + - * / % nested twice, with
\* no zero divisor; the largest integer is among the literals.
ArithmeticOperators == {"Add", "Sub", "Mult", "Div", "Modulo"}
ArithmeticAtoms == {ExprInt(2), ExprInt(7), ExprInt(IntMax)}
ArithmeticOperands ==
    ArithmeticAtoms
        \cup {ExprPrefix(a, "Negative") : a \in ArithmeticAtoms}
        \cup {ExprInfix(a, b, operator) :
                 a \in ArithmeticAtoms, b \in ArithmeticAtoms,
                 operator \in ArithmeticOperators}
ArithmeticExpressions ==
    ArithmeticOperands
        \cup {ExprInfix(x, a, operator) :
                 x \in ArithmeticOperands, a \in ArithmeticAtoms,
                 operator \in ArithmeticOperators}
ArithmeticPrograms == {<<StmtExpression(e)>> : e \in ArithmeticExpressions}

Programs == ExamplePrograms \cup RecursionPrograms \cup ZeroDivisorPrograms
                \cup ListPrograms \cup ClosurePrograms \cup IfPrograms
                \cup ErrorPrograms \cup InfixPrograms
                \cup ArithmeticPrograms

---------------------------------------------------------------------------
(* The evaluation of one program, as Repl::evaluate_program and the tests' *)
(* evaluate start it: a fresh Environment::new() and eval of the Program.  *)

Init ==
    /\ program \in Programs
    /\ envs = new(<<>>)
    /\ ctl = Eval(NodeProgram(program), 1)
    /\ stack = <<>>
    /\ lastOp = [op |-> "none"]
    /\ source = <<>>
    /\ lexer = [m |-> "idle"]
    /\ parser = [m |-> "idle"]

Next ==
    \/ EvalStatements
    \/ EvalStatementsLoop
    \/ EvalReturn
    \/ ReturnWrap
    \/ EvalExpressionStatement
    \/ EvalLet
    \/ LetBind
    \/ EvalLiteral
    \/ EvalIdentifier
    \/ EvalFunction
    \/ EvalIf
    \/ IfBranch
    \/ EvalPrefix
    \/ PrefixApply
    \/ EvalInfix
    \/ InfixRhs
    \/ InfixApply
    \/ EvalCall
    \/ CallApply
    \/ CallBindArgument
    \/ CallReturn
    \/ PropagateError

Spec == Init /\ [][Next]_vars

\* The Result of a finished evaluation.
Finished(prog) == Done /\ ctl.m = "val" /\ program = prog
FinishedWith(prog, r) == Finished(prog) => ctl.r = r

---------------------------------------------------------------------------
(* Properties of the evaluator.                                            *)

\* The identifiers the programs use.
ProgramNames == {"a", "b", "c", "d", "f", "g", "n", "x", "y", "add", "newAdder", "addTwo", "foobar", "foo", "z"}

\* eval_call has just handed an argument, or the body, to eval.
ArgumentDispatched == ctl.m = "eval" /\ stack # <<>> /\ Top.f = "call_argument"
BodyDispatched == ctl.m = "eval" /\ stack # <<>> /\ Top.f = "call_body"

\* C1: every argument of a call is evaluated in the environment in which the
\* call expression itself is evaluated, never in the callee's captured
\* environment; so `let f = fn(x){ x }; let g = fn(y){ f(y) }; g(5)` is
\* Integer(5).
C1_ArgumentsInCallerEnvironment ==
    /\ ArgumentDispatched => ctl.env = Top.call_environment
    /\ FinishedWith(ProgArgumentOfCaller, Ok(Integer(5)))

C3_ClosureSeesScopeAtCallTime ==
    /\ BodyDispatched =>
          LET S == envs[Top.environment].outer
          IN  \A n \in ProgramNames \ DOMAIN envs[ctl.env].store :
                  get(envs, S, n) # None => get(envs, ctl.env, n) = get(envs, S, n)
    /\ FinishedWith(ProgBoundAfterCreation, Ok(Integer(5)))
    /\ FinishedWith(ProgReboundAfterCreation, Ok(Integer(2)))
    /\ FinishedWith(ProgLetInArgument, Ok(Integer(1)))

\* C4: for every k in 0..MaxK,
\* `let f = fn(n){ if (n == 0) { 0 } else { f(n - 1) } }; f(k)` evaluates to
\* Integer(0).
C4_RecursionTerminatesWithZero ==
    \A k \in 0..MaxK : FinishedWith(ProgRecursion(k), Ok(Integer(0)))

\* C5: the value a Call expression produces is never an Object::ReturnValue.
C5_CallStep ==
    ReturnedOk /\ Top.f = "call_body" =>
        (ctl'.m = "val" /\ ctl'.r.ok => ctl'.r.value.type # "ReturnValue")

C5_ReturnNeverEscapesCall == [][C5_CallStep]_vars

\* C6: a statement list is evaluated in source order in one environment and
\* stops at the first statement whose value is a ReturnValue, which it returns
\* unchanged with no later statement evaluated; an empty list yields Null and
\* otherwise the result is the value of the last statement.  At Program level
\* the ReturnValue stays wrapped.
C6_Frames ==
    \A i \in 1..Len(stack) :
        stack[i].f = "eval_statements" =>
            /\ stack[i].idx \in 1..Len(stack[i].statements)
            /\ (stack[i].result = None) <=> (stack[i].idx = 1)
            /\ stack[i].result # None => stack[i].result[1].type # "ReturnValue"

C6_Examples ==
    /\ FinishedWith(ProgReturnInMiddle, Ok(return_value(Integer(10))))
    /\ FinishedWith(ProgNestedIfReturn, Ok(return_value(Integer(10))))
    /\ FinishedWith(ProgReturnThenLet, Ok(return_value(Integer(1))))
    /\ Finished(ProgReturnThenLet) => "a" \notin DOMAIN envs[1].store
    /\ FinishedWith(<<>>, Ok(Null))

C6_EnterStep ==
    Evaluating({"Program", "Block"}) =>
        IF ctl.node.statements = <<>>
        THEN ctl' = Value(Ok(Null)) /\ stack' = stack
        ELSE ctl' = Eval(ctl.node.statements[1], ctl.env)

C6_LoopStep ==
    ReturnedOk /\ Top.f = "eval_statements" =>
        IF ctl.r.value.type = "ReturnValue"
        THEN ctl' = ctl /\ stack' = Pop /\ envs' = envs
        ELSE IF Top.idx < Len(Top.statements)
        THEN ctl' = Eval(Top.statements[Top.idx + 1], Top.environment)
        ELSE ctl' = ctl /\ stack' = Pop

C6_StatementList ==
    [](C6_Frames /\ C6_Examples) /\ [][C6_EnterStep /\ C6_LoopStep]_vars

\* A Program that stopped at its second statement of three.
C6_Witness ==
    /\ Finished(ProgReturnInMiddle)
    /\ ctl.r = Ok(return_value(Integer(10)))

\* C7: no environment's store maps a name to an Object::ReturnValue.
C7_NoReturnValueStored ==
    \A e \in 1..Len(envs) :
        \A n \in DOMAIN envs[e].store : envs[e].store[n].type # "ReturnValue"

\* C10: for every dividend a, `a / 0` and `a % 0` alike evaluate to the error
\* "cannot divide by zero"; evaluation does not abort.
C10_ZeroDivisorIsError ==
    \A p \in ZeroDivisorPrograms :
        Done /\ program = p => ctl = Value(Err("cannot divide by zero"))

\* The truthiness table: Integer(0), Boolean(false) and Null are falsy, every
\* other Integer and Boolean(true) are truthy, a ReturnValue is judged by the
\* value it wraps.
RECURSIVE TruthTable(_)
TruthTable(object) ==
    CASE object.type = "Integer" -> object.int # 0
      [] object.type = "Boolean" -> object.bool
      [] object.type = "Null" -> FALSE
      [] object.type = "ReturnValue" -> TruthTable(object.value)

\* The value a ReturnValue wraps, at any depth.
RECURSIVE Innermost(_)
Innermost(object) ==
    IF object.type = "ReturnValue" THEN Innermost(object.value) ELSE object

\* eval_if_expression has the value of its condition.
ConditionEvaluated == ReturnedOk /\ Top.f = "if"

C11_BranchStep ==
    ConditionEvaluated /\ Innermost(ctl.r.value).type # "Function" =>
        IF TruthTable(ctl.r.value)
        THEN IF Top.consequence = <<>> THEN ctl' = Value(Ok(Null))
             ELSE ctl' = Eval(Top.consequence[1], Top.environment)
        ELSE IF Top.alternative # None
        THEN IF Top.alternative[1] = <<>> THEN ctl' = Value(Ok(Null))
             ELSE ctl' = Eval(Top.alternative[1][1], Top.environment)
        ELSE ctl' = Value(Ok(Null)) /\ stack' = Pop /\ envs' = envs

\* The conditions of IfConditions by the table: the truthy ones.
TruthyConditions ==
    { ExprInt(1), ExprInt(7), ExprPrefix(ExprInt(1), "Negative"), ExprBool(TRUE),
      ExprInfix(ExprInt(1), ExprInt(2), "LessThan"),
      ExprIf(ExprBool(TRUE), <<StmtReturn(ExprInt(3))>>, None),
      ExprIf(ExprBool(TRUE), <<StmtReturn(ExprBool(TRUE))>>, None) }

C11_Results ==
    \A condition \in IfConditions, alternative \in {None, Some(IfAlternative)} :
        Done /\ program = ProgIf(condition, alternative) =>
            IF condition \in TruthyConditions
            THEN ctl = Value(Ok(Integer(10))) /\ DOMAIN envs[1].store = {"c"}
            ELSE IF alternative # None
            THEN ctl = Value(Ok(Integer(20))) /\ DOMAIN envs[1].store = {"d"}
            ELSE ctl = Value(Ok(Null)) /\ DOMAIN envs[1].store = {}

\* C11: an if evaluates its alternative (or yields Null when there is none)
\* when the condition's value is Integer(0), Boolean(false) or Null, and its
\* consequence when it is a non-zero Integer or Boolean(true); a ReturnValue
\* condition is judged by the value it wraps; never both branches.
C11_IfBranchSelection == []C11_Results /\ [][C11_BranchStep]_vars

\* The condition was a ReturnValue wrapping Integer(0) and the alternative ran.
C11_Witness ==
    /\ Finished(ProgIf(ExprIf(ExprBool(TRUE), <<StmtReturn(ExprInt(0))>>, None),
                       Some(IfAlternative)))
    /\ ctl.r = Ok(Integer(20))
    /\ DOMAIN envs[1].store = {"d"}

\* C12: a Function value is truthy: an if whose condition evaluates to a
\* Function completes normally and evaluates its consequence;
\* `if (fn(x){ x }) { 1 } else { 2 }` reaches the value Integer(1).
C12_FunctionIsTruthy ==
    /\ ConditionEvaluated /\ Innermost(ctl.r.value).type = "Function" =>
          ~is_truthy(ctl.r.value).panic
    /\ Done /\ program = ProgIfFunction => ctl = Value(Ok(Integer(1)))

\* Once an eval call has returned an error, every suspended call returns that
\* same error to its caller and nothing else happens.
C13_ErrorStep ==
    Returned /\ ~ctl.r.ok => ctl' = ctl /\ stack' = Pop /\ envs' = envs

C13_Results ==
    /\ \A fail \in FailingExpressions :
          \A p \in ErrorContexts(fail.expression) :
              Done /\ program = p =>
                  /\ ctl = Value(Err(fail.msg))
                  /\ \A e \in 1..Len(envs) : "b" \notin DOMAIN envs[e].store
    /\ Done /\ program = ProgErrorFirst => ctl = Value(Err("invalid operation: 5 + true"))

\* C13: the first error of an evaluation is what eval returns, unchanged, and
\* nothing that follows in evaluation order is evaluated: later statements make
\* no bindings, the right operand, the branches, the arguments and the body
\* are not evaluated.  `5 + true; 5;` yields "invalid operation: 5 + true".
C13_ShortCircuitOnError == []C13_Results /\ [][C13_ErrorStep]_vars

\* `let a = 1; foobar; let b = 2;` has ended in the error of its second
\* statement with a bound and b not.
C13_Witness ==
    /\ Done
    /\ program = <<StmtLet("a", ExprInt(1)), StmtExpression(ExprIdentifier("foobar")),
                   EffectStatement>>
    /\ ctl = Value(Err("identifier not found: foobar"))
    /\ DOMAIN envs[1].store = {"a"}

\* eval_infix_expression has the values of both operands.
OperandsEvaluated == ReturnedOk /\ Top.f = "infix_rhs"

\* The mathematical value of lhs operator rhs for an arithmetic operator.
MathValue(operator, a, b) ==
    CASE operator = "Add" -> a + b
      [] operator = "Sub" -> a - b
      [] operator = "Mult" -> a * b
      [] operator = "Div" -> TruncDiv(a, b)
      [] operator = "Modulo" -> TruncRem(a, b)

C14_InfixStep ==
    OperandsEvaluated =>
        LET lhs == Top.lhs
            rhs == ctl.r.value
            operator == Top.operator
        IN  IF lhs.type = "Integer" /\ rhs.type = "Integer"
            THEN CASE operator \in {"Div", "Modulo"} /\ rhs.int = 0 -> TRUE
                   [] operator \in {"Add", "Sub", "Mult", "Div", "Modulo"}
                        /\ ~(operator \in {"Div", "Modulo"} /\ rhs.int = 0) ->
                        InRange(MathValue(operator, lhs.int, rhs.int)) =>
                            ctl' = Value(Ok(Integer(MathValue(operator, lhs.int,
                                                              rhs.int))))
                   [] operator = "Equal" -> ctl' = Value(Ok(Boolean(lhs.int = rhs.int)))
                   [] operator = "NotEqual" ->
                        ctl' = Value(Ok(Boolean(lhs.int # rhs.int)))
                   [] operator = "LessThan" ->
                        ctl' = Value(Ok(Boolean(lhs.int < rhs.int)))
                   [] operator = "GreaterThan" ->
                        ctl' = Value(Ok(Boolean(lhs.int > rhs.int)))
            ELSE IF lhs.type = "Boolean" /\ rhs.type = "Boolean"
                       /\ operator \in {"Equal", "NotEqual"}
            THEN ctl' = Value(Ok(Boolean((lhs.bool = rhs.bool) <=> (operator = "Equal"))))
            ELSE ctl' = Value(Err("invalid operation: " \o DisplayObject(lhs) \o " "
                                  \o DisplayInfixOperator(operator) \o " "
                                  \o DisplayObject(rhs)))

C14_Results ==
    /\ Done /\ program = ProgInfix(ExprNull, ExprNull, "Equal") =>
          ctl = Value(Err("invalid operation: null == null"))
    /\ Done /\ program = ProgInfix(ExprInt(5), ExprBool(TRUE), "Add") =>
          ctl = Value(Err("invalid operation: 5 + true"))
    /\ Done /\ program = ProgInfix(ExprBool(TRUE), ExprBool(FALSE), "LessThan") =>
          ctl = Value(Err("invalid operation: true < false"))
    /\ Done /\ program = ProgInfix(ExprPrefix(ExprInt(1), "Negative"), ExprNull, "Mult") =>
          ctl = Value(Err("invalid operation: -1 * null"))
    /\ Done /\ program = ProgInfix(ExprBool(TRUE), ExprBool(FALSE), "NotEqual") =>
          ctl = Value(Ok(Boolean(TRUE)))
    /\ Done /\ program = ProgInfix(ExprInt(5), ExprPrefix(ExprInt(1), "Negative"), "Div") =>
          ctl = Value(Ok(Integer(0 - 5)))
    /\ Done /\ program = ProgInfix(
                   ExprFunction(<<"x">>, <<StmtExpression(ExprIdentifier("x"))>>),
                   ExprInt(5), "Equal") =>
          ctl = Value(Err("invalid operation: fn(x) {\nx\n} == 5"))

\* C14: an infix expression succeeds only for two Integer operands (any
\* operator, non-zero divisor) and for two Boolean operands under == and !=;
\* every other combination of operator and operand values returns the error
\* "invalid operation: <lhs> <op> <rhs>" built from the operands' display forms,
\* `null == null` included.
C14_InfixOperandTyping == []C14_Results /\ [][C14_InfixStep]_vars

\* `null == null` has ended in its error.
C14_Witness ==
    /\ Done /\ program = ProgInfix(ExprNull, ExprNull, "Equal")
    /\ ctl = Value(Err("invalid operation: null == null"))

\* The usual mathematical value of an integer expression.
RECURSIVE MathEval(_)
MathEval(e) ==
    CASE e.kind = "Int" -> e.int
      [] e.kind = "Prefix" -> 0 - MathEval(e.rhs)
      [] e.kind = "Infix" -> MathValue(e.operator, MathEval(e.lhs), MathEval(e.rhs))

\* C15: an expression built from integer literals, unary minus and + - * / %
\* with no zero divisor evaluates to Integer(v), v its mathematical value (/
\* truncating toward zero, % the matching remainder); it neither fails nor
\* aborts.
C15_IntegerExpressionValue ==
    \A e \in ArithmeticExpressions :
        Done /\ program = <<StmtExpression(e)>> =>
            ctl = Value(Ok(Integer(MathEval(e))))

---------------------------------------------------------------------------
(* The Environment API on its own: any sequence of new / with_outer / set  *)
(* / get calls, as the unit tests of environment.rs make them.             *)

EnvNames == {"a", "b"}
EnvValues == {Integer(1), Integer(2)}

\* Bindings held by all stores together.
Bindings(E) == {<<e, n>> \in (1..Len(E)) \X EnvNames : n \in DOMAIN E[e].store}

EnvInit ==
    /\ program = <<>>
    /\ envs = <<>>
    /\ ctl = [m |-> "idle"]
    /\ stack = <<>>
    /\ lastOp = [op |-> "none"]
    /\ source = <<>>
    /\ lexer = [m |-> "idle"]
    /\ parser = [m |-> "idle"]

EnvNew ==
    /\ Len(envs) < MaxScopes
    /\ envs' = new(envs)
    /\ lastOp' = [op |-> "new", env |-> Len(envs) + 1]
    /\ UNCHANGED <<source, lexer, parser, program, ctl, stack>>

EnvWithOuter ==
    \E outer \in 1..Len(envs) :
        /\ Len(envs) < MaxScopes
        /\ envs' = with_outer(envs, outer)
        /\ lastOp' = [op |-> "with_outer", env |-> Len(envs) + 1]
        /\ UNCHANGED <<source, lexer, parser, program, ctl, stack>>

EnvSet ==
    \E self \in 1..Len(envs), name \in EnvNames, val \in EnvValues :
        /\ \/ name \in DOMAIN envs[self].store
           \/ Cardinality(Bindings(envs)) < MaxBindings
        /\ envs' = set(envs, self, name, val)
        /\ lastOp' = [op |-> "set", env |-> self, name |-> name, val |-> val]
        /\ UNCHANGED <<source, lexer, parser, program, ctl, stack>>

EnvGet ==
    \E self \in 1..Len(envs), name \in EnvNames :
        /\ lastOp' = [op |-> "get", env |-> self, name |-> name,
                      result |-> get(envs, self, name)]
        /\ UNCHANGED <<source, lexer, parser, program, envs, ctl, stack>>

EnvNext == EnvNew \/ EnvWithOuter \/ EnvSet \/ EnvGet

EnvSpec == EnvInit /\ [][EnvNext]_vars

\* The scopes of self's outer chain, self first.
RECURSIVE Chain(_, _)
Chain(E, self) ==
    IF E[self].outer = 0 THEN <<self>> ELSE <<self>> \o Chain(E, E[self].outer)

ChainSet(E, self) == {Chain(E, self)[i] : i \in 1..Len(Chain(E, self))}

\* The value name has in the first scope of the chain that binds it.
NearestBinding(E, self, name) ==
    LET chain == Chain(E, self)
        binders == {i \in 1..Len(chain) : name \in DOMAIN E[chain[i]].store}
    IN  IF binders = {} THEN None
        ELSE LET first == CHOOSE i \in binders : \A j \in binders : i <= j
             IN  Some(E[chain[first]].store[name])

\* C8: get(name) on E returns the value bound to name in the nearest scope of
\* E's outer chain that binds it (E itself first, so an inner binding shadows
\* an outer one), and None exactly when no scope of the chain binds name.
C8_GetNearestBinding ==
    lastOp.op = "get" =>
        /\ lastOp.result = NearestBinding(envs, lastOp.env, lastOp.name)
        /\ (lastOp.result = None) <=>
               (\A e \in ChainSet(envs, lastOp.env) :
                    lastOp.name \notin DOMAIN envs[e].store)

\* A get on the innermost scope of a chain of three whose own binding shadows
\* a different binding of an outer scope.
C8_Witness ==
    /\ lastOp.op = "get"
    /\ Len(Chain(envs, lastOp.env)) = 3
    /\ lastOp.name \in DOMAIN envs[lastOp.env].store
    /\ \E e \in ChainSet(envs, lastOp.env) \ {lastOp.env} :
           /\ lastOp.name \in DOMAIN envs[e].store
           /\ envs[e].store[lastOp.name] # envs[lastOp.env].store[lastOp.name]
    /\ lastOp.result = Some(envs[lastOp.env].store[lastOp.name])

\* C9: set(name, value) on E inserts or overwrites only E's own store: every
\* other store and every outer link is unchanged, E's store changes at name
\* only, and only the get results of environments whose chain passes through
\* E can change.
C9_SetStep ==
    lastOp'.op = "set" /\ vars' # vars =>
        LET self == lastOp'.env
            name == lastOp'.name
        IN  /\ Len(envs') = Len(envs)
            /\ \A e \in 1..Len(envs) :
                   /\ envs'[e].outer = envs[e].outer
                   /\ e # self => envs'[e].store = envs[e].store
            /\ DOMAIN envs'[self].store = (DOMAIN envs[self].store) \cup {name}
            /\ envs'[self].store[name] = lastOp'.val
            /\ \A n \in (DOMAIN envs[self].store) \ {name} :
                   envs'[self].store[n] = envs[self].store[n]
            /\ \A e \in 1..Len(envs), n \in EnvNames :
                   get(envs', e, n) # get(envs, e, n) => self \in ChainSet(envs, e)

C9_SetLocalOnly == [][C9_SetStep]_vars

\* A set on a scope whose outer scope binds the same name to another value:
\* the outer binding is still there afterwards.
C9_Witness ==
    /\ lastOp.op = "set"
    /\ envs[lastOp.env].outer # 0
    /\ lastOp.name \in DOMAIN envs[envs[lastOp.env].outer].store
    /\ envs[envs[lastOp.env].outer].store[lastOp.name] # lastOp.val
    /\ envs[lastOp.env].store[lastOp.name] = lastOp.val

---------------------------------------------------------------------------
(* Lexer: lexer/lexer.rs, lexer/token.rs, lexer/location.rs.  A char is a  *)
(* one-character string and a String the sequence of its chars; the        *)
(* iterator self.chars is the sequence of the chars not read yet.          *)

\* Sources the lexer specification reads hold up to MaxSourceLen chars.
MaxSourceLen == 3
\* Calls of next_token made after the one that returned the first EOF.
MaxEofCalls == 2

Letters ==
    {"a", "b", "c", "d", "e", "f", "g", "h", "i", "j", "k", "l", "m", "n", "o", "p",
     "q", "r", "s", "t", "u", "v", "w", "x", "y", "z",
     "A", "B", "C", "D", "E", "F", "G", "H", "I", "J", "K", "L", "M", "N", "O", "P",
     "Q", "R", "S", "T", "U", "V", "W", "X", "Y", "Z", "_"}
Digits == {"0", "1", "2", "3", "4", "5", "6", "7", "8", "9"}
Whitespace == {" ", "\t", "\n", "\r"}

\* Lexer::is_letter, Lexer::is_digit
is_letter(ch) == ch \in Letters
is_digit(ch) == ch \in Digits

\* The String a sequence of chars spells.
RECURSIVE StringOf(_)
StringOf(chars) == IF chars = <<>> THEN "" ELSE Head(chars) \o StringOf(Tail(chars))

Location(line, column) == [line |-> line, column |-> column]
Token(token_type, location) == [token_type |-> token_type, location |-> location]

\* TokenType: the variant with its payload, if any.
TokenType(t) == [t |-> t]
TokenIdentifier(ident) == [t |-> "Identifier", ident |-> ident]
TokenInteger(integer) == [t |-> "Integer", integer |-> integer]
TokenIllegal(ch) == [t |-> "Illegal", ch |-> ch]

\* A read_char that goes on counting columns once the input is exhausted.
read_char_counting_eof(self) ==
    IF self.chars # <<>>
    THEN LET ch == Head(self.chars)
         IN  [chars |-> Tail(self.chars), ch |-> Some(ch),
              line |-> IF ch = "\n" THEN self.line + 1 ELSE self.line,
              column |-> IF ch = "\n" THEN 0 ELSE self.column + 1]
    ELSE [self EXCEPT !.ch = None, !.column = @ + 1]

\* A read_char that does not restart the column after a newline.
read_char_no_restart(self) ==
    IF self.chars # <<>>
    THEN LET ch == Head(self.chars)
         IN  [chars |-> Tail(self.chars), ch |-> Some(ch),
              line |-> IF ch = "\n" THEN self.line + 1 ELSE self.line,
              column |-> self.column + 1]
    ELSE [self EXCEPT !.ch = None]

\* Lexer::read_char.  Here and below, the set of one element binds a value
\* that is used more than once, so that it is computed once.
read_char(self) ==
    CHOOSE after \in
        {IF lx.chars # <<>>
         THEN [chars |-> Tail(lx.chars), ch |-> Some(Head(lx.chars)),
               line |-> IF Head(lx.chars) = "\n" THEN lx.line + 1 ELSE lx.line,
               column |-> IF Head(lx.chars) = "\n" THEN 0 ELSE lx.column + 1]
         ELSE [lx EXCEPT !.ch = None] : lx \in {self}} : TRUE

\* Lexer::peek_char
peek_char(self) == IF self.chars # <<>> THEN Some(Head(self.chars)) ELSE None

\* Lexer::new
LexerNew(input) == read_char([chars |-> input, ch |-> None, line |-> 1, column |-> 0])

\* Lexer::skip_whitespace
RECURSIVE skip_whitespace(_)
skip_whitespace(self) ==
    IF self.ch # None /\ self.ch[1] \in Whitespace
    THEN skip_whitespace(read_char(self))
    ELSE self

\* Lexer::read_integer: the lexer after the loop and the String read, which
\* starts as number.
RECURSIVE read_integer(_, _)
read_integer(self, number) ==
    IF self.ch # None /\ is_digit(self.ch[1])
    THEN read_integer(read_char(self), Append(number, self.ch[1]))
    ELSE [lexer |-> self, number |-> number]

\* A read_word that returns as soon as the chars read spell `let` or `if`.
RECURSIVE read_word_to_keyword(_, _)
read_word_to_keyword(self, word) ==
    IF self.ch # None /\ is_letter(self.ch[1])
           /\ word \notin {<<"l", "e", "t">>, <<"i", "f">>}
    THEN read_word_to_keyword(read_char(self), Append(word, self.ch[1]))
    ELSE [lexer |-> self, word |-> word]

\* Lexer::read_word
RECURSIVE read_word(_, _)
read_word(self, word) ==
    IF self.ch # None /\ is_letter(self.ch[1])
    THEN read_word(read_char(self), Append(word, self.ch[1]))
    ELSE [lexer |-> self, word |-> word]

\* The match on word.as_str() of next_token: the keyword table.
keyword(word) ==
    CASE word = <<"l", "e", "t">> -> TokenType("Let")
      [] word = <<"f", "n">> -> TokenType("Function")
      [] word = <<"t", "r", "u", "e">> -> TokenType("True")
      [] word = <<"f", "a", "l", "s", "e">> -> TokenType("False")
      [] word = <<"i", "f">> -> TokenType("If")
      [] word = <<"e", "l", "s", "e">> -> TokenType("Else")
      [] word = <<"r", "e", "t", "u", "r", "n">> -> TokenType("Return")
      [] OTHER -> TokenIdentifier(word)

\* The arms of next_token's match that yield a token of one char.
single_char_token(ch) ==
    CASE ch = "," -> TokenType("Comma")
      [] ch = "(" -> TokenType("LParen")
      [] ch = ")" -> TokenType("RParen")
      [] ch = "{" -> TokenType("LBrace")
      [] ch = "}" -> TokenType("RBrace")
      [] ch = ";" -> TokenType("Semicolon")
      [] ch = "*" -> TokenType("Asterisk")
      [] ch = "/" -> TokenType("Slash")
      [] ch = "+" -> TokenType("Plus")
      [] ch = "-" -> TokenType("Minus")
      [] ch = "<" -> TokenType("LT")
      [] ch = ">" -> TokenType("GT")
      [] ch = "%" -> TokenType("Modulo")
      [] OTHER -> TokenIllegal(ch)

\* Lexer::next_token: the lexer after the call and the Token returned.
next_token(self) ==
  CHOOSE result \in {
    LET location == Location(skipped.line, skipped.column)
    IN  IF skipped.ch = None
        THEN [lexer |-> read_char(skipped), token |-> Token(TokenType("EOF"), location)]
        ELSE LET ch == skipped.ch[1]
             IN  CASE ch = "!" ->
                        IF peek_char(skipped) = Some("=")
                        THEN [lexer |-> read_char(read_char(skipped)),
                              token |-> Token(TokenType("NotEq"), location)]
                        ELSE [lexer |-> read_char(skipped),
                              token |-> Token(TokenType("Bang"), location)]
                   [] ch = "=" ->
                        IF peek_char(skipped) = Some("=")
                        THEN [lexer |-> read_char(read_char(skipped)),
                              token |-> Token(TokenType("Eq"), location)]
                        ELSE [lexer |-> read_char(skipped),
                              token |-> Token(TokenType("Assign"), location)]
                   [] is_digit(ch) ->
                        LET read == read_integer(skipped, <<>>)
                        IN  [lexer |-> read.lexer,
                             token |-> Token(TokenInteger(read.number), location)]
                   [] is_letter(ch) ->
                        LET read == read_word(skipped, <<>>)
                        IN  [lexer |-> read.lexer,
                             token |-> Token(keyword(read.word), location)]
                   [] OTHER ->
                        [lexer |-> read_char(skipped),
                         token |-> Token(single_char_token(ch), location)]
    : skipped \in {skip_whitespace(self)}} : TRUE

---------------------------------------------------------------------------
(* The lexer on its own: Lexer::new on a source, then calls of next_token, *)
(* as the unit tests of lexer.rs make them.                                *)

\* The chars the generated sources are made of.
LexAlphabet == {"a", "_", "7", " ", "\n", "\t", "\r", "=", "!", ";", "@"}

\* "==\n!=", "banana pera\nuva", "1234\n6789"
SrcEquals == <<"=", "=", "\n", "!", "=">>
SrcWords ==
    <<"b", "a", "n", "a", "n", "a", " ", "p", "e", "r", "a", "\n", "u", "v", "a">>
SrcIntegers == <<"1", "2", "3", "4", "\n", "6", "7", "8", "9">>
\* "null", "nulls", "let x = null;"
SrcNull == <<"n", "u", "l", "l">>
SrcNulls == <<"n", "u", "l", "l", "s">>
SrcLetNull == <<"l", "e", "t", " ", "x", " ", "=", " ", "n", "u", "l", "l", ";">>
\* "fn if else\r\n\ttrue false return"
SrcKeywords ==
    <<"f", "n", " ", "i", "f", " ", "e", "l", "s", "e", "\r", "\n", "\t",
      "t", "r", "u", "e", " ", "f", "a", "l", "s", "e", " ",
      "r", "e", "t", "u", "r", "n">>
\* ",(){}*/+-<>%"
SrcPunctuation == <<",", "(", ")", "{", "}", "*", "/", "+", "-", "<", ">", "%">>

\* "letx let_ iff let if", "1===2!=!3"
SrcKeywordPrefixes ==
    <<"l", "e", "t", "x", " ", "l", "e", "t", "_", " ", "i", "f", "f", " ",
      "l", "e", "t", " ", "i", "f">>
SrcOperatorRuns == <<"1", "=", "=", "=", "2", "!", "=", "!", "3">>

LexExamples ==
    {SrcEquals, SrcWords, SrcIntegers, SrcNull, SrcNulls, SrcLetNull, SrcKeywords,
     SrcPunctuation, SrcKeywordPrefixes, SrcOperatorRuns}

LexSources ==
    LexExamples \cup UNION {[1..n -> LexAlphabet] : n \in 0..MaxSourceLen}

LexInit ==
    /\ source \in LexSources
    /\ lexer = LexerNew(source)
    /\ lastOp = [op |-> "new", calls |-> 0, eofs |-> 0]
    /\ program = <<>>
    /\ envs = <<>>
    /\ ctl = [m |-> "idle"]
    /\ stack = <<>>
    /\ parser = [m |-> "idle"]

\* One call of next_token; calls stop MaxEofCalls after the first EOF.  lastOp
\* keeps the Token returned, the number of calls and of EOF tokens so far.
LexNextToken ==
    /\ lastOp.eofs <= MaxEofCalls
    /\ LET result == next_token(lexer)
       IN  /\ lexer' = result.lexer
           /\ lastOp' = [op |-> "next_token", token |-> result.token,
                         calls |-> lastOp.calls + 1,
                         eofs |-> IF result.token.token_type.t = "EOF"
                                  THEN lastOp.eofs + 1 ELSE lastOp.eofs]
    /\ UNCHANGED <<source, parser, program, envs, ctl, stack>>

LexNext == LexNextToken

LexSpec == LexInit /\ [][LexNext]_vars

---------------------------------------------------------------------------
(* Properties of the lexer.                                                *)

\* The index in the source of the lexer's current char (Len + 1 at the end).
CurrentIndex == Len(source) - Len(lexer.chars) + (IF lexer.ch = None THEN 1 ELSE 0)

\* The index of the first char at or after k that is not whitespace (Len + 1
\* when there is none).
FirstTokenChar(S, k) ==
    LET rest == {j \in k..Len(S) : S[j] \notin Whitespace}
    IN  IF rest = {} THEN Len(S) + 1
        ELSE CHOOSE j \in rest : \A i \in rest : j <= i

\* Line and column of the char at index j: lines count from 1, the first char
\* of a line is in column 1.
LineOf(S, j) == 1 + Cardinality({i \in 1..(j - 1) : S[i] = "\n"})
ColumnOf(S, j) ==
    LET newlines == {i \in 1..(j - 1) : S[i] = "\n"}
    IN  IF newlines = {} THEN j
        ELSE j - (CHOOSE i \in newlines : \A n \in newlines : n <= i)

C16_Calls ==
    lastOp.op = "next_token" /\ lastOp.calls > Len(source) =>
        lastOp.token.token_type.t = "EOF"

C16_EofStep ==
    lastOp.op = "next_token" /\ lastOp.token.token_type.t = "EOF" =>
        /\ lastOp'.token = lastOp.token
        /\ lexer' = lexer

\* C16: next_token returns EOF after at most one call per char of the source
\* plus one, and from the first EOF on every call returns EOF with the same
\* location and leaves the lexer's char, line and column as they are.
C16_EofReachedAndIdempotent == []C16_Calls /\ [][C16_EofStep]_vars

\* "banana pera\nuva": EOF returned three times at line 2, column 3.
C16_Witness ==
    /\ source = SrcWords
    /\ lastOp.eofs = 3
    /\ lastOp.token = Token(TokenType("EOF"), Location(2, 3))

C17_LocationStep ==
    lastOp'.op = "next_token" /\ lastOp'.calls = lastOp.calls + 1
            /\ lastOp'.token.token_type.t # "EOF" =>
        LET first == FirstTokenChar(source, CurrentIndex)
        IN  lastOp'.token.location =
                Location(LineOf(source, first), ColumnOf(source, first))

\* C17: every token but EOF carries the line and column of its first char:
\* lines count from 1, the first char of a line is in column 1, every char
\* but a newline advances the column by one, a newline starts the next line.
C17_TokenLocation == [][C17_LocationStep]_vars

\* "==\n!=": the two-char token != found at line 2, column 1.
C17_Witness ==
    /\ source = SrcEquals
    /\ lastOp.op = "next_token"
    /\ lastOp.token = Token(TokenType("NotEq"), Location(2, 1))

\* C18: the maximal word `null` is the token Null, never Identifier("null").
C18_NullIsKeyword ==
    lastOp.op = "next_token" =>
        /\ lastOp.token.token_type # TokenIdentifier(<<"n", "u", "l", "l">>)
        /\ source = SrcNull /\ lastOp.calls = 1 =>
               lastOp.token.token_type = TokenType("Null")

\* The longest lexeme of the source S that starts at index k, a char that is
\* not whitespace: == or !=, a maximal run of digits, a maximal run of letters
\* and _, or the one char.
RunEnd(S, k, class) ==
    LET stops == {j \in k..Len(S) : S[j] \notin class}
    IN  IF stops = {} THEN Len(S) + 1 ELSE CHOOSE j \in stops : \A i \in stops : j <= i
LexemeEnd(S, k) ==
    IF S[k] \in {"=", "!"} THEN (IF k < Len(S) /\ S[k + 1] = "=" THEN k + 2 ELSE k + 1)
    ELSE IF S[k] \in Digits THEN RunEnd(S, k, Digits)
    ELSE IF S[k] \in Letters THEN RunEnd(S, k, Letters)
    ELSE k + 1
Lexeme(S, k) == SubSeq(S, k, LexemeEnd(S, k) - 1)

\* What the keyword tokens spell.
KeywordSpellings ==
    { [t |-> "Let", word |-> <<"l", "e", "t">>],
      [t |-> "Function", word |-> <<"f", "n">>],
      [t |-> "True", word |-> <<"t", "r", "u", "e">>],
      [t |-> "False", word |-> <<"f", "a", "l", "s", "e">>],
      [t |-> "If", word |-> <<"i", "f">>],
      [t |-> "Else", word |-> <<"e", "l", "s", "e">>],
      [t |-> "Return", word |-> <<"r", "e", "t", "u", "r", "n">>],
      [t |-> "Null", word |-> <<"n", "u", "l", "l">>] }

\* The token type is that of the class of the lexeme.
TypeOfLexeme(token_type, lexeme) ==
    CASE lexeme = <<"=", "=">> -> token_type = TokenType("Eq")
      [] lexeme = <<"!", "=">> -> token_type = TokenType("NotEq")
      [] lexeme = <<"=">> -> token_type = TokenType("Assign")
      [] lexeme = <<"!">> -> token_type = TokenType("Bang")
      [] lexeme[1] \in Digits -> token_type = TokenInteger(lexeme)
      [] lexeme[1] \in Letters ->
           \/ token_type = TokenIdentifier(lexeme)
           \/ [t |-> token_type.t, word |-> lexeme] \in KeywordSpellings
               /\ token_type = TokenType(token_type.t)
      [] OTHER -> token_type = single_char_token(lexeme[1])

C24_TokenStep ==
    lastOp'.op = "next_token" /\ lastOp'.calls = lastOp.calls + 1 =>
        LET first == FirstTokenChar(source, CurrentIndex)
        IN  IF first > Len(source)
            THEN lastOp'.token.token_type = TokenType("EOF")
            ELSE /\ TypeOfLexeme(lastOp'.token.token_type, Lexeme(source, first))
                 /\ CurrentIndex' = LexemeEnd(source, first)

C24_Examples ==
    lastOp.op = "next_token" =>
        /\ source = SrcKeywordPrefixes =>
               lastOp.token.token_type =
                   CASE lastOp.calls = 1 -> TokenIdentifier(<<"l", "e", "t", "x">>)
                     [] lastOp.calls = 2 -> TokenIdentifier(<<"l", "e", "t", "_">>)
                     [] lastOp.calls = 3 -> TokenIdentifier(<<"i", "f", "f">>)
                     [] lastOp.calls = 4 -> TokenType("Let")
                     [] lastOp.calls = 5 -> TokenType("If")
                     [] OTHER -> TokenType("EOF")
        /\ source = <<"=", "=", "=">> =>
               lastOp.token.token_type =
                   CASE lastOp.calls = 1 -> TokenType("Eq")
                     [] lastOp.calls = 2 -> TokenType("Assign")
                     [] OTHER -> TokenType("EOF")

\* C24: every token is the longest lexeme of its class that starts at the
\* first char that is not whitespace: == and != are one token, = and ! before
\* any other char are Assign and Bang and leave that char to the next token,
\* a digit starts a maximal run of digits, a letter or _ a maximal run of
\* letters and _ that is a keyword only when the whole run spells it; the
\* lexer then stands right after the lexeme, so no char that is not whitespace
\* is skipped or returned twice.
C24_LongestMatch == []C24_Examples /\ [][C24_TokenStep]_vars

\* "letx let_ iff let if": the fourth token is Let, after three identifiers
\* that begin with a keyword.
C24_Witness ==
    /\ source = SrcKeywordPrefixes
    /\ lastOp.op = "next_token" /\ lastOp.calls = 4
    /\ lastOp.token = Token(TokenType("Let"), Location(1, 15))

\* C25: every token, EOF and the tokens of an empty source or of a source
\* that ends with or holds only whitespace included, has a line of at least 1
\* and a column of at least 1.
C25_LocationFromOne ==
    lastOp.op = "next_token" =>
        lastOp.token.location.line >= 1 /\ lastOp.token.location.column >= 1

---------------------------------------------------------------------------
(* Parser: parser/parser.rs, parser/precedence.rs, parser/macros.rs.  The  *)
(* recursive descent is unfolded like the evaluator: ctl holds the         *)
(* function about to run or the Result just returned, stack one frame per  *)
(* suspended call, program the statements parse_program has pushed.        *)

\* impl Display for TokenType
DisplayTokenType(token_type) ==
    CASE token_type.t = "Let" -> "let"
      [] token_type.t = "Identifier" -> "identifier " \o StringOf(token_type.ident)
      [] token_type.t = "Assign" -> "assign"
      [] token_type.t = "Integer" -> "integer " \o StringOf(token_type.integer)
      [] token_type.t = "Comma" -> ","
      [] token_type.t = "Function" -> "function"
      [] token_type.t = "LParen" -> "("
      [] token_type.t = "RParen" -> ")"
      [] token_type.t = "LBrace" -> "{"
      [] token_type.t = "RBrace" -> "}"
      [] token_type.t = "Semicolon" -> ";"
      [] token_type.t = "Illegal" -> "illegal " \o token_type.ch
      [] token_type.t = "EOF" -> "end of file"
      [] token_type.t = "Plus" -> "+"
      [] token_type.t = "Minus" -> "-"
      [] token_type.t = "Bang" -> "!"
      [] token_type.t = "Asterisk" -> "*"
      [] token_type.t = "Slash" -> "/"
      [] token_type.t = "LT" -> "<"
      [] token_type.t = "GT" -> ">"
      [] token_type.t = "True" -> "boolean true"
      [] token_type.t = "False" -> "boolean false"
      [] token_type.t = "If" -> "if"
      [] token_type.t = "Else" -> "else"
      [] token_type.t = "Return" -> "return"
      [] token_type.t = "Eq" -> "=="
      [] token_type.t = "NotEq" -> "!="
      [] token_type.t = "Modulo" -> "%"
      [] token_type.t = "Null" -> "null"

\* #[derive(Debug)] on TokenType, as {:?} prints it
DebugTokenType(token_type) ==
    CASE token_type.t = "Identifier" ->
           "Identifier(\"" \o StringOf(token_type.ident) \o "\")"
      [] token_type.t = "Integer" ->
           "Integer(\"" \o StringOf(token_type.integer) \o "\")"
      [] token_type.t = "Illegal" -> "Illegal('" \o token_type.ch \o "')"
      [] OTHER -> token_type.t

\* impl Display for Location
DisplayLocation(location) ==
    "@" \o IntToString(location.line) \o ":" \o IntToString(location.column)

\* ParserError::new
ParserError(msg, location) == [msg |-> msg, location |-> location]

\* Precedence and impl From<&Token> for Precedence
LOWEST == 1
EQUALS == 2
LESSGREATER == 3
SUM == 4
PRODUCT == 5
PREFIX == 6
CALL == 7

\* A table in which + and - bind as tightly as * and /.
PrecedenceFromSumAsProduct(token) ==
    CASE token.token_type.t \in {"Eq", "NotEq"} -> EQUALS
      [] token.token_type.t \in {"Plus", "Minus", "Slash", "Asterisk", "Modulo"} -> PRODUCT
      [] token.token_type.t \in {"GT", "LT"} -> LESSGREATER
      [] token.token_type.t = "LParen" -> CALL
      [] OTHER -> LOWEST

PrecedenceFrom(token) ==
    CASE token.token_type.t \in {"Eq", "NotEq"} -> EQUALS
      [] token.token_type.t \in {"Plus", "Minus"} -> SUM
      [] token.token_type.t \in {"Slash", "Asterisk", "Modulo"} -> PRODUCT
      [] token.token_type.t \in {"GT", "LT"} -> LESSGREATER
      [] token.token_type.t = "LParen" -> CALL
      [] OTHER -> LOWEST

\* Parser::new
ParserNew(lx) ==
    LET first == next_token(lx)
        second == next_token(first.lexer)
    IN  [lexer |-> second.lexer, current_token |-> first.token,
         peeking_token |-> second.token, errors |-> <<>>]

\* A next_token that reads nothing.
parser_next_token_stuck(self) == self

\* Parser::next_token
parser_next_token(self) ==
    CHOOSE after \in
        {[self EXCEPT !.current_token = self.peeking_token,
                      !.peeking_token = read.token,
                      !.lexer = read.lexer] : read \in {next_token(self.lexer)}} : TRUE

\* The variants of the current and of the peeking token.
Current(self) == self.current_token.token_type.t
Peeking(self) == self.peeking_token.token_type.t

\* expect_peek!(self, token): Ok with the parser after next_token, or the
\* error about the peeking token.
expect_peek(self, token) ==
    IF Peeking(self) = token
    THEN [ok |-> TRUE, parser |-> parser_next_token(self)]
    ELSE [ok |-> FALSE,
          error |-> ParserError("unexpected token "
                                    \o DisplayTokenType(self.peeking_token.token_type)
                                    \o " in "
                                    \o DisplayLocation(self.peeking_token.location),
                                self.peeking_token.location)]

\* str::parse::<i64> on a run of digits: the value, or None when it does not
\* fit the integer width.
DigitValue(ch) == CHOOSE d \in 0..9 : Digit(d) = ch
RECURSIVE DigitsValue(_, _)
DigitsValue(literal, value) ==
    IF literal = <<>> THEN value
    ELSE DigitsValue(Tail(literal), 10 * value + DigitValue(Head(literal)))
parse_i64(literal) ==
    IF DigitsValue(literal, 0) <= IntMax THEN Some(DigitsValue(literal, 0)) ELSE None

\* Parser::parse_integer
parse_integer(self, literal) ==
    IF parse_i64(literal) # None
    THEN Ok(ExprInt(parse_i64(literal)[1]))
    ELSE Err(ParserError("failed to parse integer " \o StringOf(literal),
                         self.current_token.location))

\* Parser::parse_boolean
parse_boolean(self) == Ok(ExprBool(Current(self) = "True"))

\* The arms of parse_prefix that call nothing that reads tokens.
parse_prefix_atom(self) ==
    CASE Current(self) = "Identifier" ->
           Ok(ExprIdentifier(StringOf(self.current_token.token_type.ident)))
      [] Current(self) = "Integer" ->
           parse_integer(self, self.current_token.token_type.integer)
      [] Current(self) \in {"True", "False"} -> parse_boolean(self)
      [] Current(self) = "Null" -> Ok(ExprNull)
      [] OTHER ->
           Err(ParserError("Expected prefix expression, got "
                               \o DebugTokenType(self.current_token.token_type),
                           self.current_token.location))

\* The operator arms of parse_infix's match.
infix_operator(t) ==
    CASE t = "Eq" -> "Equal"
      [] t = "NotEq" -> "NotEqual"
      [] t = "Plus" -> "Add"
      [] t = "Minus" -> "Sub"
      [] t = "Asterisk" -> "Mult"
      [] t = "Slash" -> "Div"
      [] t = "GT" -> "GreaterThan"
      [] t = "LT" -> "LessThan"
      [] t = "Modulo" -> "Modulo"
InfixTokens == {"Eq", "NotEq", "Plus", "Minus", "Asterisk", "Slash", "GT", "LT", "Modulo"}

\* The tokens not consumed yet: those the lexer has still to produce, and the
\* peeking and the current token, EOF not counted.
RECURSIVE TokensLeft(_)
TokensLeft(lx) ==
    CHOOSE n \in {IF read.token.token_type.t = "EOF" THEN 0 ELSE 1 + TokensLeft(read.lexer)
                     : read \in {next_token(lx)}} : TRUE
Remaining(self) ==
    TokensLeft(self.lexer) + (IF Peeking(self) = "EOF" THEN 0 ELSE 1)
        + (IF Current(self) = "EOF" THEN 0 ELSE 1)

\* What the parser's control holds: a function about to run (with its
\* arguments), the Result a function returned, or the end of parse_program.
Call(fn) == [m |-> "call", fn |-> fn]
CallExpression(precedence) ==
    [m |-> "call", fn |-> "parse_expression", precedence |-> precedence]
Loop(fn, items) == [m |-> "call", fn |-> fn, items |-> items]
Ret(r) == [m |-> "ret", r |-> r]
ParseDone == ctl.m = "done"
Calling(fn) == ctl.m = "call" /\ ctl.fn = fn
ParseReturned == ctl.m = "ret" /\ stack # <<>>
ParseReturnedOk == ParseReturned /\ ctl.r.ok

\* The frames of the parser.  A frame of a loop keeps, in remaining, the
\* number of tokens that were left when the turn in progress began; no action
\* reads it.
FrameParseProgram(remaining) == [f |-> "parse_program", remaining |-> remaining]
FrameStatement(kind, identifier) == [f |-> "statement", kind |-> kind, name |-> identifier]
FrameParseExpression(precedence, remaining) ==
    [f |-> "parse_expression", precedence |-> precedence, remaining |-> remaining]
FrameGrouped == [f |-> "grouped"]
FramePrefixExpression(operator) == [f |-> "prefix_expression", operator |-> operator]
FrameInfix(lhs, operator) == [f |-> "infix", lhs |-> lhs, operator |-> operator]
FrameCallArguments(function, arguments, remaining) ==
    [f |-> "call_arguments", function |-> function, arguments |-> arguments,
     remaining |-> remaining]
FrameIfCondition == [f |-> "if_condition"]
FrameIfConsequence(condition) == [f |-> "if_consequence", condition |-> condition]
FrameIfAlternative(condition, consequence) ==
    [f |-> "if_alternative", condition |-> condition, consequence |-> consequence]
FrameFunctionBody(parameters) == [f |-> "function_body", parameters |-> parameters]
FrameBlock(statements, remaining) ==
    [f |-> "block", statements |-> statements, remaining |-> remaining]

---------------------------------------------------------------------------
(* Parser::parse_program, advance_tokens                                   *)

\* Line 68: the loop test, then parse_statement or the return of the Program.
ParseProgram ==
    /\ Calling("parse_program")
    /\ IF Current(parser) # "EOF"
       THEN /\ ctl' = Call("parse_statement")
            /\ stack' = Append(stack, FrameParseProgram(Remaining(parser)))
       ELSE /\ ctl' = [m |-> "done"]
            /\ stack' = stack
    /\ UNCHANGED <<source, lexer, parser, program, envs, lastOp>>

\* Lines 71-76: the statement is pushed, or the error; then advance_tokens.
\* lastOp keeps whether parse_statement returned Ok and the number of tokens
\* that were left when it returned, and the Program that was formatted when the
\* source is the text of one; no action of the parser reads it.
ParseProgramStatement ==
    /\ ParseReturned /\ Top.f = "parse_program"
    /\ IF ctl.r.ok
       THEN /\ program' = Append(program, ctl.r.value)
            /\ parser' = parser
       ELSE /\ program' = program
            /\ parser' = [parser EXCEPT !.errors = Append(@, ctl.r.msg)]
    /\ ctl' = Call("advance_tokens")
    /\ lastOp' = [lastOp EXCEPT !.op = "parse_statement", !.ok = ctl.r.ok,
                                !.remaining = Remaining(parser)]
    /\ UNCHANGED <<source, lexer, stack, envs>>

\* One turn of the loop of advance_tokens.
AdvanceTokensSkip ==
    /\ Calling("advance_tokens")
    /\ Current(parser) \notin {"Semicolon", "EOF"}
    /\ parser' = parser_next_token(parser)
    /\ UNCHANGED <<source, lexer, program, envs, ctl, stack, lastOp>>

\* An advance_tokens that stops at the `;` instead of stepping over it.
AdvanceTokensEndAtSemicolon ==
    /\ Calling("advance_tokens")
    /\ Current(parser) \in {"Semicolon", "EOF"}
    /\ ctl' = Call("parse_program")
    /\ stack' = Pop
    /\ UNCHANGED <<source, lexer, parser, program, envs, lastOp>>

\* Lines 121-123, and back to the loop test of parse_program.
AdvanceTokensEnd ==
    /\ Calling("advance_tokens")
    /\ Current(parser) \in {"Semicolon", "EOF"}
    /\ parser' = IF Current(parser) = "Semicolon" THEN parser_next_token(parser)
                 ELSE parser
    /\ ctl' = Call("parse_program")
    /\ stack' = Pop
    /\ UNCHANGED <<source, lexer, program, envs, lastOp>>

---------------------------------------------------------------------------
(* Parser::parse_statement and the three kinds of statement                *)

\* parse_let_statement up to its call of parse_expression
ParseLetStatement ==
    /\ Calling("parse_statement") /\ Current(parser) = "Let"
    /\ LET named == parser_next_token(parser)
           assign == expect_peek(named, "Assign")
       IN  IF Current(named) # "Identifier"
           THEN /\ ctl' = Ret(Err(ParserError(
                              "expected identifier, got "
                                  \o DisplayTokenType(named.current_token.token_type),
                              named.current_token.location)))
                /\ parser' = named
                /\ stack' = stack
           ELSE IF ~assign.ok
           THEN /\ ctl' = Ret(Err(assign.error))
                /\ parser' = named
                /\ stack' = stack
           ELSE /\ ctl' = CallExpression(LOWEST)
                /\ parser' = parser_next_token(assign.parser)
                /\ stack' = Append(stack,
                       FrameStatement("Let", StringOf(named.current_token.token_type.ident)))
    /\ UNCHANGED <<source, lexer, program, envs, lastOp>>

\* parse_return_statement up to its call of parse_expression
ParseReturnStatement ==
    /\ Calling("parse_statement") /\ Current(parser) = "Return"
    /\ parser' = parser_next_token(parser)
    /\ ctl' = CallExpression(LOWEST)
    /\ stack' = Append(stack, FrameStatement("Return", ""))
    /\ UNCHANGED <<source, lexer, program, envs, lastOp>>

\* parse_expression_statement up to its call of parse_expression
ParseExpressionStatement ==
    /\ Calling("parse_statement") /\ Current(parser) \notin {"Let", "Return"}
    /\ ctl' = CallExpression(LOWEST)
    /\ stack' = Append(stack, FrameStatement("Expression", ""))
    /\ UNCHANGED <<source, lexer, parser, program, envs, lastOp>>

\* The end of the three: an optional `;` is taken and the Statement returned.
StatementEnd ==
    /\ ParseReturnedOk /\ Top.f = "statement"
    /\ parser' = IF Peeking(parser) = "Semicolon" THEN parser_next_token(parser)
                 ELSE parser
    /\ ctl' = Ret(Ok(CASE Top.kind = "Let" -> StmtLet(Top.name, ctl.r.value)
                       [] Top.kind = "Return" -> StmtReturn(ctl.r.value)
                       [] Top.kind = "Expression" -> StmtExpression(ctl.r.value)))
    /\ stack' = Pop
    /\ UNCHANGED <<source, lexer, program, envs, lastOp>>

---------------------------------------------------------------------------
(* Parser::parse_expression, parse_prefix and what parse_prefix calls      *)

\* Line 101: parse_expression calls parse_prefix.
ParseExpression ==
    /\ Calling("parse_expression")
    /\ ctl' = Call("parse_prefix")
    /\ stack' = Append(stack, FrameParseExpression(ctl.precedence, None))
    /\ UNCHANGED <<source, lexer, parser, program, envs, lastOp>>

\* parse_prefix on an identifier, an integer, a boolean, null, or a token that
\* starts no expression
ParsePrefixAtom ==
    /\ Calling("parse_prefix")
    /\ Current(parser) \notin {"LParen", "Bang", "Minus", "If", "Function"}
    /\ ctl' = Ret(parse_prefix_atom(parser))
    /\ UNCHANGED <<source, lexer, parser, program, envs, stack, lastOp>>

\* parse_grouped_expression up to its call of parse_expression
ParseGroupedExpression ==
    /\ Calling("parse_prefix") /\ Current(parser) = "LParen"
    /\ parser' = parser_next_token(parser)
    /\ ctl' = CallExpression(LOWEST)
    /\ stack' = Append(stack, FrameGrouped)
    /\ UNCHANGED <<source, lexer, program, envs, lastOp>>

\* Lines 250-254: the Result of the inner expression is kept as it is, Ok or
\* Err, while `)` is expected; it is returned if `)` is there.
GroupedEnd ==
    /\ ParseReturned /\ Top.f = "grouped"
    /\ LET rparen == expect_peek(parser, "RParen")
       IN  IF rparen.ok
           THEN ctl' = ctl /\ parser' = rparen.parser
           ELSE ctl' = Ret(Err(rparen.error)) /\ parser' = parser
    /\ stack' = Pop
    /\ UNCHANGED <<source, lexer, program, envs, lastOp>>

\* parse_prefix_expression up to its call of parse_expression
ParsePrefixExpression ==
    /\ Calling("parse_prefix") /\ Current(parser) \in {"Bang", "Minus"}
    /\ parser' = parser_next_token(parser)
    /\ ctl' = CallExpression(PREFIX)
    /\ stack' = Append(stack, FramePrefixExpression(
                                  IF Current(parser) = "Bang" THEN "Not" ELSE "Negative"))
    /\ UNCHANGED <<source, lexer, program, envs, lastOp>>

PrefixExpressionEnd ==
    /\ ParseReturnedOk /\ Top.f = "prefix_expression"
    /\ ctl' = Ret(Ok(ExprPrefix(ctl.r.value, Top.operator)))
    /\ stack' = Pop
    /\ UNCHANGED <<source, lexer, parser, program, envs, lastOp>>

\* The loop of parse_expression, with the call of parse_infix up to the
\* first nested call that parse_infix or parse_call_arguments makes.
ExpressionLoop ==
    /\ ParseReturnedOk /\ Top.f = "parse_expression"
    /\ IF Peeking(parser) # "Semicolon"
              /\ Top.precedence < PrecedenceFrom(parser.peeking_token)
       THEN LET operator == parser_next_token(parser)
                turn == [Top EXCEPT !.remaining = Some(Remaining(parser))]
            IN  CASE Current(operator) \in InfixTokens ->
                       /\ parser' = parser_next_token(operator)
                       /\ ctl' = CallExpression(PrecedenceFrom(operator.current_token))
                       /\ stack' = Append(Append(Pop, turn),
                                          FrameInfix(ctl.r.value,
                                                     infix_operator(Current(operator))))
                  [] Current(operator) = "LParen" /\ Peeking(operator) = "RParen" ->
                       /\ parser' = parser_next_token(operator)
                       /\ ctl' = Ret(Ok(ExprCall(ctl.r.value, <<>>)))
                       /\ stack' = Append(Pop, turn)
                  [] Current(operator) = "LParen" /\ Peeking(operator) # "RParen" ->
                       /\ parser' = parser_next_token(operator)
                       /\ ctl' = CallExpression(LOWEST)
                       /\ stack' = Append(Append(Pop, turn),
                                          FrameCallArguments(ctl.r.value, <<>>, None))
                  [] OTHER ->
                       /\ parser' = operator
                       /\ ctl' = Ret(Err(ParserError(
                                      "unexpected token "
                                          \o DisplayTokenType(
                                                 operator.current_token.token_type),
                                      operator.current_token.location)))
                       /\ stack' = Append(Pop, turn)
       ELSE /\ parser' = parser
            /\ ctl' = ctl
            /\ stack' = Pop
    /\ UNCHANGED <<source, lexer, program, envs, lastOp>>

\* Lines 299-300 of parse_infix
InfixEnd ==
    /\ ParseReturnedOk /\ Top.f = "infix"
    /\ ctl' = Ret(Ok(ExprInfix(Top.lhs, ctl.r.value, Top.operator)))
    /\ stack' = Pop
    /\ UNCHANGED <<source, lexer, parser, program, envs, lastOp>>

\* parse_call_arguments once an argument is parsed: the loop on `,` and the
\* closing `)`
CallArgumentsLoop ==
    /\ ParseReturnedOk /\ Top.f = "call_arguments"
    /\ LET arguments == Append(Top.arguments, ctl.r.value)
           rparen == expect_peek(parser, "RParen")
       IN  IF Peeking(parser) = "Comma"
           THEN /\ parser' = parser_next_token(parser_next_token(parser))
                /\ ctl' = CallExpression(LOWEST)
                /\ stack' = Append(Pop, FrameCallArguments(Top.function, arguments,
                                                           Some(Remaining(parser))))
           ELSE IF rparen.ok
           THEN /\ parser' = rparen.parser
                /\ ctl' = Ret(Ok(ExprCall(Top.function, arguments)))
                /\ stack' = Pop
           ELSE /\ parser' = parser
                /\ ctl' = Ret(Err(rparen.error))
                /\ stack' = Pop
    /\ UNCHANGED <<source, lexer, program, envs, lastOp>>

---------------------------------------------------------------------------
(* Parser::parse_if_expression, parse_function_literal,                    *)
(* parse_function_params, parse_block_statement                            *)

\* parse_if_expression up to its call of parse_expression for the condition
ParseIfExpression ==
    /\ Calling("parse_prefix") /\ Current(parser) = "If"
    /\ LET lparen == expect_peek(parser, "LParen")
       IN  IF lparen.ok
           THEN /\ parser' = parser_next_token(lparen.parser)
                /\ ctl' = CallExpression(LOWEST)
                /\ stack' = Append(stack, FrameIfCondition)
           ELSE /\ parser' = parser
                /\ ctl' = Ret(Err(lparen.error))
                /\ stack' = stack
    /\ UNCHANGED <<source, lexer, program, envs, lastOp>>

\* Lines 212-216: `)` and `{` are expected, then the consequence is parsed.
IfConditionEnd ==
    /\ ParseReturnedOk /\ Top.f = "if_condition"
    /\ LET rparen == expect_peek(parser, "RParen")
           lbrace == expect_peek(rparen.parser, "LBrace")
       IN  IF ~rparen.ok
           THEN /\ parser' = parser
                /\ ctl' = Ret(Err(rparen.error))
                /\ stack' = Pop
           ELSE IF ~lbrace.ok
           THEN /\ parser' = rparen.parser
                /\ ctl' = Ret(Err(lbrace.error))
                /\ stack' = Pop
           ELSE /\ parser' = lbrace.parser
                /\ ctl' = Call("parse_block_statement")
                /\ stack' = Append(Pop, FrameIfConsequence(ctl.r.value))
    /\ UNCHANGED <<source, lexer, program, envs, lastOp>>

\* Lines 218-228 up to the alternative's block, or the If without one.
IfConsequenceEnd ==
    /\ ParseReturnedOk /\ Top.f = "if_consequence"
    /\ LET after_else == parser_next_token(parser)
           lbrace == expect_peek(after_else, "LBrace")
       IN  IF Peeking(parser) # "Else"
           THEN /\ parser' = parser
                /\ ctl' = Ret(Ok(ExprIf(Top.condition, ctl.r.value, None)))
                /\ stack' = Pop
           ELSE IF ~lbrace.ok
           THEN /\ parser' = after_else
                /\ ctl' = Ret(Err(lbrace.error))
                /\ stack' = Pop
           ELSE /\ parser' = lbrace.parser
                /\ ctl' = Call("parse_block_statement")
                /\ stack' = Append(Pop, FrameIfAlternative(Top.condition, ctl.r.value))
    /\ UNCHANGED <<source, lexer, program, envs, lastOp>>

\* Lines 225-228 with an alternative
IfAlternativeEnd ==
    /\ ParseReturnedOk /\ Top.f = "if_alternative"
    /\ ctl' = Ret(Ok(ExprIf(Top.condition, Top.consequence, Some(ctl.r.value))))
    /\ stack' = Pop
    /\ UNCHANGED <<source, lexer, parser, program, envs, lastOp>>

\* parse_function_literal up to the loop of parse_function_params
ParseFunctionLiteral ==
    /\ Calling("parse_prefix") /\ Current(parser) = "Function"
    /\ LET lparen == expect_peek(parser, "LParen")
       IN  IF lparen.ok
           THEN /\ parser' = parser_next_token(lparen.parser)
                /\ ctl' = Loop(IF Peeking(lparen.parser) = "RParen"
                               THEN "function_params_end"
                               ELSE "function_params_loop", <<>>)
           ELSE /\ parser' = parser
                /\ ctl' = Ret(Err(lparen.error))
    /\ UNCHANGED <<source, lexer, program, envs, stack, lastOp>>

\* One turn of the `while let` of parse_function_params.
FunctionParamsLoop ==
    /\ Calling("function_params_loop") /\ Current(parser) = "Identifier"
    /\ LET after == parser_next_token(parser)
       IN  parser' = IF Current(after) = "Comma" THEN parser_next_token(after) ELSE after
    /\ ctl' = Loop("function_params_loop",
                   Append(ctl.items, StringOf(parser.current_token.token_type.ident)))
    /\ UNCHANGED <<source, lexer, program, envs, stack, lastOp>>

\* parse_function_params returns; `{` is expected and the body parsed.
FunctionParamsEnd ==
    /\ \/ Calling("function_params_end")
       \/ Calling("function_params_loop") /\ Current(parser) # "Identifier"
    /\ LET lbrace == expect_peek(parser, "LBrace")
       IN  IF lbrace.ok
           THEN /\ parser' = lbrace.parser
                /\ ctl' = Call("parse_block_statement")
                /\ stack' = Append(stack, FrameFunctionBody(ctl.items))
           ELSE /\ parser' = parser
                /\ ctl' = Ret(Err(lbrace.error))
                /\ stack' = stack
    /\ UNCHANGED <<source, lexer, program, envs, lastOp>>

\* Line 180
FunctionBody ==
    /\ ParseReturnedOk /\ Top.f = "function_body"
    /\ ctl' = Ret(Ok(ExprFunction(Top.parameters, ctl.r.value)))
    /\ stack' = Pop
    /\ UNCHANGED <<source, lexer, parser, program, envs, lastOp>>

\* Lines 232-234 of parse_block_statement
ParseBlockStatement ==
    /\ Calling("parse_block_statement")
    /\ parser' = parser_next_token(parser)
    /\ ctl' = Call("block_loop")
    /\ stack' = Append(stack, FrameBlock(<<>>, None))
    /\ UNCHANGED <<source, lexer, program, envs, lastOp>>

\* Line 236: the loop test, then parse_statement or the return of the block.
BlockLoop ==
    /\ Calling("block_loop")
    /\ IF Current(parser) \notin {"RBrace", "EOF"}
       THEN /\ ctl' = Call("parse_statement")
            /\ stack' = Append(Pop, [Top EXCEPT !.remaining = Some(Remaining(parser))])
       ELSE /\ ctl' = Ret(Ok(Top.statements))
            /\ stack' = Pop
    /\ UNCHANGED <<source, lexer, parser, program, envs, lastOp>>

\* Lines 240-241
BlockStatement ==
    /\ ParseReturnedOk /\ Top.f = "block"
    /\ parser' = parser_next_token(parser)
    /\ ctl' = Call("block_loop")
    /\ stack' = Append(Pop, [Top EXCEPT !.statements = Append(@, ctl.r.value)])
    /\ UNCHANGED <<source, lexer, program, envs, lastOp>>

\* The `?` operator: an Err leaves every function that applies `?` to the
\* call; parse_program and parse_grouped_expression match on it instead.
PropagateParseError ==
    /\ ParseReturned /\ ~ctl.r.ok
    /\ Top.f \notin {"parse_program", "grouped"}
    /\ stack' = Pop
    /\ UNCHANGED <<source, lexer, parser, program, envs, ctl, lastOp>>

---------------------------------------------------------------------------
(* The parser on a source text: Parser::new(Lexer::new(source)), then      *)
(* parse_program, as Repl::evaluate_program and the tests of parser.rs     *)
(* start it.                                                               *)

\* The number of lexemes of a generated source, and of statements of a
\* source made of statements.
MaxTokens == 3
MaxPieces == 2

\* The lexemes the generated sources are made of.
Lexemes ==
    {<<"l", "e", "t">>, <<"a">>, <<"=">>, <<"1">>, <<";">>, <<"(">>, <<")">>,
     <<"{">>, <<"i", "f">>, <<"f", "n">>}

\* Lexemes or statements one after another, a space after each.
RECURSIVE JoinSpaced(_)
JoinSpaced(pieces) ==
    IF pieces = <<>> THEN <<>> ELSE Head(pieces) \o <<" ">> \o JoinSpaced(Tail(pieces))

LexemeSources == {JoinSpaced(lexemes) : lexemes \in UNION {[1..n -> Lexemes] : n \in 0..MaxTokens}}

\* Well-formed statements ended by `;`, each with the Statement it is in
\* isolation, and statements that fail to parse, with no `;` but the last char.
GoodPieces ==
    {[text |-> <<"l", "e", "t", " ", "a", " ", "=", " ", "1", ";">>,
      good |-> TRUE,
      statement |-> StmtLet("a", ExprInt(1))],
     [text |-> <<"a", ";">>,
      good |-> TRUE,
      statement |-> StmtExpression(ExprIdentifier("a"))],
     [text |-> <<"r", "e", "t", "u", "r", "n", " ", "-", "1", ";">>,
      good |-> TRUE,
      statement |-> StmtReturn(ExprPrefix(ExprInt(1), "Negative"))],
     [text |-> <<"1", " ", "+", " ", "a", " ", "*", " ", "2", ";">>,
      good |-> TRUE,
      statement |->
          StmtExpression(ExprInfix(ExprInt(1),
                                   ExprInfix(ExprIdentifier("a"), ExprInt(2), "Mult"),
                                   "Add"))]}
BadPieces ==
    {[text |-> <<"l", "e", "t", " ", "a", " ", "1", ";">>, good |-> FALSE],
     [text |-> <<"(", "1", ";">>, good |-> FALSE],
     [text |-> <<"@", ";">>, good |-> FALSE],
     [text |-> <<"9", "9", "9", ";">>, good |-> FALSE],
     [text |-> <<"1", " ", "+", " ", ";">>, good |-> FALSE]}
Pieces == GoodPieces \cup BadPieces
PieceLists == UNION {[1..n -> Pieces] : n \in 0..MaxPieces}
Texts(pieces) == [i \in DOMAIN pieces |-> pieces[i].text]
PieceSources == {JoinSpaced(Texts(pieces)) : pieces \in PieceLists}

\* test_peek_error, with a literal that fits the integer width:
\* let x 5; let y = 10; let foobar = 83;
SrcPeekError ==
    <<"l", "e", "t", " ", "x", " ", "5", ";", " ", "l", "e", "t", " ", "y",
      " ", "=", " ", "1", "0", ";", " ", "l", "e", "t", " ", "f", "o", "o",
      "b", "a", "r", " ", "=", " ", "8", "3", ";">>
\* let x = 5; / let y = true; / let z = y;
SrcLetStatements ==
    <<"l", "e", "t", " ", "x", " ", "=", " ", "5", ";", "\n", "l", "e", "t",
      " ", "y", " ", "=", " ", "t", "r", "u", "e", ";", "\n", "l", "e", "t",
      " ", "z", " ", "=", " ", "y", ";">>
\* return 5; return a + b
SrcReturnStatements ==
    <<"r", "e", "t", "u", "r", "n", " ", "5", ";", " ", "r", "e", "t", "u",
      "r", "n", " ", "a", " ", "+", " ", "b">>
\* -a * b + !c == 1 < 2 != 3 > 4 / 5 - 6 % 7
SrcPrecedence ==
    <<"-", "a", " ", "*", " ", "b", " ", "+", " ", "!", "c", " ", "=", "=",
      " ", "1", " ", "<", " ", "2", " ", "!", "=", " ", "3", " ", ">", " ",
      "4", " ", "/", " ", "5", " ", "-", " ", "6", " ", "%", " ", "7">>
\* (1 + 2) * -(3 + 4);
SrcGrouped ==
    <<"(", "1", " ", "+", " ", "2", ")", " ", "*", " ", "-", "(", "3", " ",
      "+", " ", "4", ")", ";">>
\* if (x < y) { x } else { let z = y; z }
SrcIfElse ==
    <<"i", "f", " ", "(", "x", " ", "<", " ", "y", ")", " ", "{", " ", "x",
      " ", "}", " ", "e", "l", "s", "e", " ", "{", " ", "l", "e", "t", " ",
      "z", " ", "=", " ", "y", ";", " ", "z", " ", "}">>
\* if (x) { 1 } 2; 3;
SrcIfStatements ==
    <<"i", "f", " ", "(", "x", ")", " ", "{", " ", "1", " ", "}", " ", "2",
      ";", " ", "3", ";">>
\* fn(x, y) { x + y; }; fn() { }; fn(x) { return x; }
SrcFunction ==
    <<"f", "n", "(", "x", ",", " ", "y", ")", " ", "{", " ", "x", " ", "+",
      " ", "y", ";", " ", "}", ";", " ", "f", "n", "(", ")", " ", "{", " ",
      "}", ";", " ", "f", "n", "(", "x", ")", " ", "{", " ", "r", "e", "t",
      "u", "r", "n", " ", "x", ";", " ", "}">>
\* add(1, 2 * 3, add()); fn(x) { x }(5)
SrcCalls ==
    <<"a", "d", "d", "(", "1", ",", " ", "2", " ", "*", " ", "3", ",", " ",
      "a", "d", "d", "(", ")", ")", ";", " ", "f", "n", "(", "x", ")", " ",
      "{", " ", "x", " ", "}", "(", "5", ")">>
\* ((1 + 2; 3) ; 4
SrcUnbalancedParens ==
    <<"(", "(", "1", " ", "+", " ", "2", ";", " ", "3", ")", " ", ";", " ",
      "4">>
\* if (a) { 1; fn(b { 2
SrcUnbalancedBraces ==
    <<"i", "f", " ", "(", "a", ")", " ", "{", " ", "1", ";", " ", "f", "n",
      "(", "b", " ", "{", " ", "2">>
\* 1 @ 2; @; let a = @ + 1; a
SrcIllegal ==
    <<"1", " ", "@", " ", "2", ";", " ", "@", ";", " ", "l", "e", "t", " ",
      "a", " ", "=", " ", "@", " ", "+", " ", "1", ";", " ", "a">>
\* let a = 999; 999 + 1; a(999, 1); 127
SrcOutOfRange ==
    <<"l", "e", "t", " ", "a", " ", "=", " ", "9", "9", "9", ";", " ", "9",
      "9", "9", " ", "+", " ", "1", ";", " ", "a", "(", "9", "9", "9", ",",
      " ", "1", ")", ";", " ", "1", "2", "7">>
\* if a; if (a { 1 }; if (a) 1; if (a) { 1 } else 2; b
SrcBrokenIf ==
    <<"i", "f", " ", "a", ";", " ", "i", "f", " ", "(", "a", " ", "{", " ",
      "1", " ", "}", ";", " ", "i", "f", " ", "(", "a", ")", " ", "1", ";",
      " ", "i", "f", " ", "(", "a", ")", " ", "{", " ", "1", " ", "}", " ",
      "e", "l", "s", "e", " ", "2", ";", " ", "b">>
\* fn a; fn(a, b; fn(1) { }; fn(a) { @ }; b
SrcBrokenFunction ==
    <<"f", "n", " ", "a", ";", " ", "f", "n", "(", "a", ",", " ", "b", ";",
      " ", "f", "n", "(", "1", ")", " ", "{", " ", "}", ";", " ", "f", "n",
      "(", "a", ")", " ", "{", " ", "@", " ", "}", ";", " ", "b">>
\* a(1 2); a(1, ; a(,); a(1,); b
SrcBrokenCall ==
    <<"a", "(", "1", " ", "2", ")", ";", " ", "a", "(", "1", ",", " ", ";",
      " ", "a", "(", ",", ")", ";", " ", "a", "(", "1", ",", ")", ";", " ",
      "b">>
\* let; let 1 = 2; let a; let a = ; let a = 1 let b = 2; -; !
SrcBrokenLet ==
    <<"l", "e", "t", ";", " ", "l", "e", "t", " ", "1", " ", "=", " ", "2",
      ";", " ", "l", "e", "t", " ", "a", ";", " ", "l", "e", "t", " ", "a",
      " ", "=", " ", ";", " ", "l", "e", "t", " ", "a", " ", "=", " ", "1",
      " ", "l", "e", "t", " ", "b", " ", "=", " ", "2", ";", " ", "-", ";",
      " ", "!">>
\* let a = 1; let b 2; a + b; (3; return a;
SrcRecovery ==
    <<"l", "e", "t", " ", "a", " ", "=", " ", "1", ";", " ", "l", "e", "t",
      " ", "b", " ", "2", ";", " ", "a", " ", "+", " ", "b", ";", " ", "(",
      "3", ";", " ", "r", "e", "t", "u", "r", "n", " ", "a", ";">>

\* 5 5;
SrcTwoIntegers ==
    <<"5", " ", "5", ";">>
\* 5 @ 3;
SrcIllegalInfix ==
    <<"5", " ", "@", " ", "3", ";">>
\* fn(x y) { x }
SrcParamsNoComma ==
    <<"f", "n", "(", "x", " ", "y", ")", " ", "{", " ", "x", " ", "}">>
\* fn(x,) { x }
SrcParamsTrailingComma ==
    <<"f", "n", "(", "x", ",", ")", " ", "{", " ", "x", " ", "}">>
\* fn(x,, y) { x }
SrcParamsDoubledComma ==
    <<"f", "n", "(", "x", ",", ",", " ", "y", ")", " ", "{", " ", "x", " ",
      "}">>
\* fn(1) { x }
SrcParamsNotIdentifier ==
    <<"f", "n", "(", "1", ")", " ", "{", " ", "x", " ", "}">>
\* fn(, x) { x }
SrcParamsLeadingComma ==
    <<"f", "n", "(", ",", " ", "x", ")", " ", "{", " ", "x", " ", "}">>
\* fn(x { x }
SrcParamsUnclosed ==
    <<"f", "n", "(", "x", " ", "{", " ", "x", " ", "}">>
\* if (x) { y
SrcUnclosedIf ==
    <<"i", "f", " ", "(", "x", ")", " ", "{", " ", "y">>
\* fn(a) { a;
SrcUnclosedFunction ==
    <<"f", "n", "(", "a", ")", " ", "{", " ", "a", ";">>
DiscardExamples == {SrcTwoIntegers, SrcIllegalInfix}
ParameterExamples ==
    {SrcParamsNoComma, SrcParamsTrailingComma, SrcParamsDoubledComma,
     SrcParamsNotIdentifier, SrcParamsLeadingComma, SrcParamsUnclosed}
UnclosedExamples == {SrcUnclosedIf, SrcUnclosedFunction}

ParseExamples ==
    {SrcPeekError,
     SrcRecovery,
     SrcLetStatements,
     SrcReturnStatements,
     SrcPrecedence,
     SrcGrouped,
     SrcIfElse,
     SrcIfStatements,
     SrcFunction,
     SrcCalls,
     SrcUnbalancedParens,
     SrcUnbalancedBraces,
     SrcIllegal,
     SrcOutOfRange,
     SrcBrokenIf,
     SrcBrokenFunction,
     SrcBrokenCall,
     SrcBrokenLet}

---------------------------------------------------------------------------
(* Operator precedence: inputs and Program's Display.                      *)

\* impl Display for Program, as test_precedences reads it: the statements,
\* one per line.
DisplayProgram(statements) == Join(DisplayStatements(statements), "\n")

\* The number of binary operators of a generated expression.
MaxOperators == 2

\* The table of test_precedences, and more rows of the same kind with %, with
\* prefix operators on both sides and with parentheses in the middle.
PrecedenceTests ==
    {[text |-> <<"-", "a", " ", "*", " ", "b">>,
      printed |-> "((-a) * b)"],
     [text |-> <<"!", "-", "a">>,
      printed |-> "(!(-a))"],
     [text |-> <<"a", " ", "+", " ", "b", " ", "+", " ", "c">>,
      printed |-> "((a + b) + c)"],
     [text |-> <<"a", " ", "+", " ", "b", " ", "-", " ", "c">>,
      printed |-> "((a + b) - c)"],
     [text |-> <<"a", " ", "*", " ", "b", " ", "*", " ", "c">>,
      printed |-> "((a * b) * c)"],
     [text |-> <<"a", " ", "*", " ", "b", " ", "/", " ", "c">>,
      printed |-> "((a * b) / c)"],
     [text |-> <<"a", " ", "+", " ", "b", " ", "/", " ", "c">>,
      printed |-> "(a + (b / c))"],
     [text |-> <<"a", " ", "+", " ", "b", " ", "*", " ", "c", " ", "+", " ", "d", " ", "/", " ", "e", " ", "-", " ", "f">>,
      printed |-> "(((a + (b * c)) + (d / e)) - f)"],
     [text |-> <<"3", " ", "+", " ", "4", ";", " ", "-", "5", " ", "*", " ", "5">>,
      printed |-> "(3 + 4)\n((-5) * 5)"],
     [text |-> <<"5", " ", ">", " ", "4", " ", "=", "=", " ", "3", " ", "<", " ", "4">>,
      printed |-> "((5 > 4) == (3 < 4))"],
     [text |-> <<"5", " ", "<", " ", "4", " ", "!", "=", " ", "3", " ", ">", " ", "4">>,
      printed |-> "((5 < 4) != (3 > 4))"],
     [text |-> <<"3", " ", "+", " ", "4", " ", "*", " ", "5", " ", "=", "=", " ", "3", " ", "*", " ", "1", " ", "+", " ", "4", " ", "*", " ", "5">>,
      printed |-> "((3 + (4 * 5)) == ((3 * 1) + (4 * 5)))"],
     [text |-> <<"t", "r", "u", "e">>,
      printed |-> "true"],
     [text |-> <<"f", "a", "l", "s", "e">>,
      printed |-> "false"],
     [text |-> <<"3", " ", ">", " ", "5", " ", "=", "=", " ", "f", "a", "l", "s", "e">>,
      printed |-> "((3 > 5) == false)"],
     [text |-> <<"3", " ", "<", " ", "5", " ", "=", "=", " ", "t", "r", "u", "e">>,
      printed |-> "((3 < 5) == true)"],
     [text |-> <<"1", " ", "+", " ", "(", "2", " ", "+", " ", "3", ")", " ", "+", " ", "4">>,
      printed |-> "((1 + (2 + 3)) + 4)"],
     [text |-> <<"(", "5", " ", "+", " ", "5", ")", " ", "*", " ", "2">>,
      printed |-> "((5 + 5) * 2)"],
     [text |-> <<"2", " ", "/", " ", "(", "5", " ", "+", " ", "5", ")">>,
      printed |-> "(2 / (5 + 5))"],
     [text |-> <<"-", "(", "5", " ", "+", " ", "5", ")">>,
      printed |-> "(-(5 + 5))"],
     [text |-> <<"!", "(", "t", "r", "u", "e", " ", "=", "=", " ", "t", "r", "u", "e", ")">>,
      printed |-> "(!(true == true))"],
     [text |-> <<"a", " ", "%", " ", "b", " ", "+", " ", "c">>,
      printed |-> "((a % b) + c)"],
     [text |-> <<"a", " ", "-", " ", "b", " ", "%", " ", "c">>,
      printed |-> "(a - (b % c))"],
     [text |-> <<"-", "a", " ", "-", " ", "-", "b">>,
      printed |-> "((-a) - (-b))"],
     [text |-> <<"!", "a", " ", "=", "=", " ", "!", "b">>,
      printed |-> "((!a) == (!b))"],
     [text |-> <<"a", " ", "*", " ", "(", "b", " ", "+", " ", "c", ")", " ", "*", " ", "d">>,
      printed |-> "((a * (b + c)) * d)"]}

\* The lexemes of the binary and of the prefix operators.
OperatorLexemes ==
    {<<"=", "=">>, <<"!", "=">>, <<"<">>, <<">">>, <<"+">>, <<"-">>, <<"*">>, <<"/">>,
     <<"%">>}
PrefixLexemes == {<<"-">>, <<"!">>}

\* a op b op c ...: the operands are the letters in order.
ChainOperands == <<"a", "b", "c", "d", "e">>
RECURSIVE ChainFrom(_, _)
ChainFrom(operators, k) ==
    IF operators = <<>> THEN <<ChainOperands[k]>>
    ELSE <<ChainOperands[k], " ">> \o Head(operators) \o <<" ">>
             \o ChainFrom(Tail(operators), k + 1)
ChainSources ==
    {ChainFrom(operators, 1) :
         operators \in UNION {[1..n -> OperatorLexemes] : n \in 0..MaxOperators}}
\* A prefix operator on either operand of one binary operator.
PrefixedSources ==
    {prefix \o <<"a", " ">> \o operator \o <<" ", "b">> :
         prefix \in PrefixLexemes, operator \in OperatorLexemes}
        \cup {<<"a", " ">> \o operator \o <<" ">> \o prefix \o <<"b">> :
                  prefix \in PrefixLexemes, operator \in OperatorLexemes}
PrecedenceSources ==
    {test.text : test \in PrecedenceTests} \cup ChainSources \cup PrefixedSources


ParseSources ==
    ParseExamples \cup LexemeSources \cup PieceSources \cup PrecedenceSources
        \cup DiscardExamples \cup ParameterExamples \cup UnclosedExamples

ParseInit ==
    /\ source \in ParseSources
    /\ parser = ParserNew(LexerNew(source))
    /\ program = <<>>
    /\ ctl = Call("parse_program")
    /\ stack = <<>>
    /\ envs = <<>>
    /\ lastOp = [op |-> "new", ok |-> TRUE, remaining |-> Remaining(parser),
                 formatted |-> None]
    /\ lexer = [m |-> "idle"]

ParseNext ==
    \/ ParseProgram
    \/ ParseProgramStatement
    \/ AdvanceTokensSkip
    \/ AdvanceTokensEnd
    \/ ParseLetStatement
    \/ ParseReturnStatement
    \/ ParseExpressionStatement
    \/ StatementEnd
    \/ ParseExpression
    \/ ParsePrefixAtom
    \/ ParseGroupedExpression
    \/ GroupedEnd
    \/ ParsePrefixExpression
    \/ PrefixExpressionEnd
    \/ ExpressionLoop
    \/ InfixEnd
    \/ CallArgumentsLoop
    \/ ParseIfExpression
    \/ IfConditionEnd
    \/ IfConsequenceEnd
    \/ IfAlternativeEnd
    \/ ParseFunctionLiteral
    \/ FunctionParamsLoop
    \/ FunctionParamsEnd
    \/ FunctionBody
    \/ ParseBlockStatement
    \/ BlockLoop
    \/ BlockStatement
    \/ PropagateParseError

ParseSpec == ParseInit /\ [][ParseNext]_vars

\* parse_program runs on one thread and nothing suspends it: a step that can
\* be taken is taken.
ParseFairSpec == ParseSpec /\ WF_vars(ParseNext)

---------------------------------------------------------------------------
(* Properties of the parser.                                               *)

\* The tokens of a source up to and with EOF, as next_token returns them.
RECURSIVE TokensOf(_)
TokensOf(lx) ==
    LET read == next_token(lx)
    IN  IF read.token.token_type.t = "EOF" THEN <<read.token>>
        ELSE <<read.token>> \o TokensOf(read.lexer)
SourceTokens == TokensOf(LexerNew(source))

\* The index in SourceTokens of the current token, from the tokens left.
TokenIndex(remaining) == Len(SourceTokens) - remaining
CurrentTokenIndex == TokenIndex(Remaining(parser))

\* Every state but the end of parse_program has a step to take.
C19_NeverStuck == ParseDone \/ ENABLED ParseNext

C19_EofOnReturn == ParseDone => Current(parser) = "EOF" /\ stack = <<>>

\* One turn of each loop leaves fewer tokens than it began with: the loops of
\* advance_tokens and parse_function_params in one step, those of
\* parse_program and parse_block_statement from the loop test to the end of the
\* turn, those of parse_expression and parse_call_arguments from one turn to
\* the next.
C19_LoopStep ==
    /\ Calling("advance_tokens") /\ Current(parser) \notin {"Semicolon", "EOF"} =>
           Remaining(parser') < Remaining(parser)
    /\ Calling("advance_tokens") /\ Current(parser) \in {"Semicolon", "EOF"} =>
           Remaining(parser') < Top.remaining
    /\ Calling("function_params_loop") /\ Current(parser) = "Identifier" =>
           Remaining(parser') < Remaining(parser)
    /\ ParseReturnedOk /\ Top.f = "block" =>
           Remaining(parser') < Top.remaining[1]
    /\ ParseReturnedOk /\ Top.f \in {"parse_expression", "call_arguments"}
           /\ Top.remaining # None =>
           Remaining(parser) < Top.remaining[1]

\* C19: on every source, malformed ones included, parse_program ends, in no
\* state short of its end is there no step to take, at its end the current
\* token is EOF and no call is suspended, and every turn of every loop of the
\* parser consumes at least one token.
C19_ParseProgramTerminates ==
    /\ <>ParseDone
    /\ []C19_NeverStuck
    /\ []C19_EofOnReturn
    /\ [][C19_LoopStep]_vars

\* Malformed sources parsed to the end, with errors recorded and statements
\* pushed, and a source whose blocks, parameters and arguments took turns.
C19_Witness ==
    /\ ParseDone
    /\ source \in {SrcUnbalancedBraces, SrcBrokenFunction, SrcFunction, SrcCalls}
    /\ (source = SrcBrokenFunction => Len(parser.errors) = 4 /\ Len(program) = 1)
    /\ (source = SrcUnbalancedBraces => parser.errors = <<>> /\ Len(program) = 1)

\* Whether the loop test of parse_program is about to run after a statement
\* that failed.
Recovered ==
    /\ Calling("parse_program")
    /\ lastOp.op = "parse_statement" /\ ~lastOp.ok

\* The index of the first `;` or EOF at or after token k, and the index the
\* recovery from an error at token k is to end at.
NextSemicolon(k) ==
    CHOOSE j \in k..Len(SourceTokens) :
        /\ SourceTokens[j].token_type.t \in {"Semicolon", "EOF"}
        /\ \A i \in k..(j - 1) : SourceTokens[i].token_type.t \notin {"Semicolon", "EOF"}
SkipTarget(k) ==
    IF SourceTokens[NextSemicolon(k)].token_type.t = "Semicolon"
    THEN NextSemicolon(k) + 1 ELSE NextSemicolon(k)

\* The step of parse_program on a failed statement: one error more, which has
\* a message and the location of a token between the statement's first token
\* and the peeking token, and no statement more.
C20_ErrorStep ==
    ParseReturned /\ Top.f = "parse_program" /\ ~ctl.r.ok =>
        /\ parser'.errors = Append(parser.errors, ctl.r.msg)
        /\ ctl.r.msg.msg # ""
        /\ \E k \in TokenIndex(Top.remaining)..Len(SourceTokens) :
               /\ k <= CurrentTokenIndex + 1
               /\ ctl.r.msg.location = SourceTokens[k].location
        /\ program' = program

\* Errors are recorded and statements pushed by that step of parse_program only.
C20_OtherStep ==
    ~(ParseReturned /\ Top.f = "parse_program") =>
        parser'.errors = parser.errors /\ program' = program

\* After the recovery the current token is the one after the first `;` at or
\* after the token the failed statement stopped at, or EOF when there is none.
C20_SkipsOverSemicolon ==
    Recovered => CurrentTokenIndex = SkipTarget(TokenIndex(lastOp.remaining))

\* The source text from the char at a location on.
SuffixAt(location) ==
    LET j == CHOOSE i \in 1..Len(source) :
                 LineOf(source, i) = location.line /\ ColumnOf(source, i) = location.column
    IN  SubSeq(source, j, Len(source))
\* The kinds of the tokens a parser has not consumed, current token first.
TokenTypes(tokens) == [i \in DOMAIN tokens |-> tokens[i].token_type]
Unconsumed(self) ==
    <<self.current_token.token_type, self.peeking_token.token_type>>
        \o TokenTypes(TokensOf(self.lexer))

\* After the recovery the parser has the tokens ahead that a new parser on the
\* rest of the text has: what follows is parsed as it is in isolation.
C20_ResumesAsInIsolation ==
    Recovered /\ Current(parser) # "EOF" =>
        Unconsumed(parser) =
            Unconsumed(ParserNew(LexerNew(SuffixAt(parser.current_token.location))))

\* A source cut after each `;`, the space after it dropped.
RECURSIVE SplitStatements(_, _)
SplitStatements(chars, piece) ==
    IF chars = <<>> THEN (IF piece = <<>> THEN <<>> ELSE <<piece>>)
    ELSE IF Head(chars) = ";"
    THEN <<Append(piece, ";")>> \o SplitStatements(Tail(chars), <<>>)
    ELSE IF piece = <<>> /\ Head(chars) = " " THEN SplitStatements(Tail(chars), <<>>)
    ELSE SplitStatements(Tail(chars), Append(piece, Head(chars)))
PieceOf(text) == CHOOSE piece \in Pieces : piece.text = text
\* The statements of the well-formed ones of a list of texts, in order.
RECURSIVE GoodStatements(_)
GoodStatements(texts) ==
    IF texts = <<>> THEN <<>>
    ELSE (IF PieceOf(Head(texts)).good THEN <<PieceOf(Head(texts)).statement>> ELSE <<>>)
             \o GoodStatements(Tail(texts))
BadCount(texts) == Cardinality({i \in DOMAIN texts : ~PieceOf(texts[i]).good})

\* A source made of well-formed and failing statements yields the statements
\* of the well-formed ones, each as it parses alone, and one error for each
\* failing one.
C20_Pieces ==
    LET texts == SplitStatements(source, <<>>)
    IN  ParseDone /\ (\A i \in DOMAIN texts : \E piece \in Pieces : piece.text = texts[i]) =>
            /\ program = GoodStatements(texts)
            /\ Len(parser.errors) = BadCount(texts)

\* `let x 5; let y = 10; let foobar = 83;`
C20_Example ==
    ParseDone /\ source = SrcPeekError =>
        /\ Len(parser.errors) = 1
        /\ parser.errors[1].location = Location(1, 7)
        /\ program = <<StmtLet("y", ExprInt(10)), StmtLet("foobar", ExprInt(83))>>

\* C20: a top-level statement that fails to parse adds exactly one error,
\* with a message and the location of a token of the statement, and no
\* statement; the parser then skips to and over the next `;`, or stops at EOF;
\* the statements after that `;` are parsed and pushed as they are in
\* isolation.
C20_ErrorRecovery ==
    /\ [][C20_ErrorStep /\ C20_OtherStep]_vars
    /\ [](C20_SkipsOverSemicolon /\ C20_ResumesAsInIsolation)
    /\ [](C20_Pieces /\ C20_Example)

\* Failing statements between well-formed ones, parsed to the end.
C20_Witness ==
    /\ ParseDone
    /\ source = SrcRecovery
    /\ Len(parser.errors) = 2
    /\ program = <<StmtLet("a", ExprInt(1)),
                   StmtExpression(ExprInfix(ExprIdentifier("a"), ExprIdentifier("b"), "Add")),
                   StmtReturn(ExprIdentifier("a"))>>

\* The kinds of the tokens of the source before EOF.
SourceTokenTypes ==
    [i \in 1..(Len(SourceTokens) - 1) |-> SourceTokens[i].token_type]

\* The grouping by the ordering of the operators, computed from the tokens of
\* one expression with no reference to the parser: the level of a binary
\* operator, the places of the binary operators outside every parenthesis, and
\* the split at the rightmost of those of the lowest level.
OperatorLevel(t) ==
    CASE t \in {"Eq", "NotEq"} -> 1
      [] t \in {"LT", "GT"} -> 2
      [] t \in {"Plus", "Minus"} -> 3
      [] t \in {"Asterisk", "Slash", "Modulo"} -> 4
EndsOperand(token_type) ==
    token_type.t \in {"Identifier", "Integer", "True", "False", "RParen"}
ParenDepth(ts, i) ==
    Cardinality({j \in 1..(i - 1) : ts[j].t = "LParen"})
        - Cardinality({j \in 1..(i - 1) : ts[j].t = "RParen"})
BinaryPlaces(ts) ==
    {i \in 2..Len(ts) :
         ts[i].t \in InfixTokens /\ EndsOperand(ts[i - 1]) /\ ParenDepth(ts, i) = 0}
SplitPlace(ts) ==
    CHOOSE i \in BinaryPlaces(ts) :
        \A j \in BinaryPlaces(ts) :
            \/ OperatorLevel(ts[j].t) > OperatorLevel(ts[i].t)
            \/ OperatorLevel(ts[j].t) = OperatorLevel(ts[i].t) /\ j <= i
RECURSIVE Grouping(_)
Grouping(ts) ==
    IF BinaryPlaces(ts) # {}
    THEN ExprInfix(Grouping(SubSeq(ts, 1, SplitPlace(ts) - 1)),
                   Grouping(SubSeq(ts, SplitPlace(ts) + 1, Len(ts))),
                   infix_operator(ts[SplitPlace(ts)].t))
    ELSE CASE ts[1].t = "Bang" -> ExprPrefix(Grouping(Tail(ts)), "Not")
           [] ts[1].t = "Minus" -> ExprPrefix(Grouping(Tail(ts)), "Negative")
           [] ts[1].t = "LParen" -> Grouping(SubSeq(ts, 2, Len(ts) - 1))
           [] ts[1].t = "Identifier" -> ExprIdentifier(StringOf(ts[1].ident))
           [] ts[1].t = "Integer" -> ExprInt(DigitsValue(ts[1].integer, 0))
           [] ts[1].t \in {"True", "False"} -> ExprBool(ts[1].t = "True")

\* The rows of the table: no error, and the Program prints as the row says.
C21_Table ==
    \A test \in PrecedenceTests :
        ParseDone /\ source = test.text =>
            parser.errors = <<>> /\ DisplayProgram(program) = test.printed

\* One expression: the Program is that expression grouped by the ordering.
C21_Grouping ==
    ParseDone /\ source \in PrecedenceSources /\ ";" \notin {source[i] : i \in DOMAIN source} =>
        /\ parser.errors = <<>>
        /\ program = <<StmtExpression(Grouping(SourceTokenTypes))>>

\* C21: an expression over identifiers, literals, prefix ! and -, the binary
\* operators and parentheses parses to the grouping of the ordering
\* Equals < LessGreater < Sum < Product < Prefix with every binary operator
\* left-associative, a prefix operator binding tighter than any binary one and
\* parentheses overriding; printed, it is the fully parenthesised form.
C21_PrecedenceAndAssociativity == C21_Table /\ C21_Grouping

\* `a + b * c + d / e - f` parsed and printed.
C21_Witness ==
    /\ ParseDone
    /\ DisplayProgram(program) = "(((a + (b * c)) + (d / e)) - f)"
    /\ program = <<StmtExpression(Grouping(SourceTokenTypes))>>

---------------------------------------------------------------------------
(* The round trip: a Program parsed without error is formatted by the      *)
(* Display implementations and the text is parsed by a new parser.         *)

\* The chars of what Display writes.  An identifier's chars are those of the
\* word of the source it was read from.
RECURSIVE NatChars(_)
NatChars(n) == IF n < 10 THEN <<Digit(n)>> ELSE NatChars(n \div 10) \o <<Digit(n % 10)>>
RECURSIVE JoinChars(_, _)
JoinChars(texts, sep) ==
    IF Len(texts) = 0 THEN <<>>
    ELSE IF Len(texts) = 1 THEN texts[1]
    ELSE texts[1] \o sep \o JoinChars(Tail(texts), sep)
NameChars(name, words) == CHOOSE word \in words : StringOf(word) = name
InfixOperatorChars(operator) ==
    CASE operator = "Add" -> <<"+">>
      [] operator = "Sub" -> <<"-">>
      [] operator = "Mult" -> <<"*">>
      [] operator = "Div" -> <<"/">>
      [] operator = "Modulo" -> <<"%">>
      [] operator = "Equal" -> <<"=", "=">>
      [] operator = "NotEqual" -> <<"!", "=">>
      [] operator = "GreaterThan" -> <<">">>
      [] operator = "LessThan" -> <<"<">>
PrefixOperatorChars(operator) == IF operator = "Not" THEN <<"!">> ELSE <<"-">>

RECURSIVE ExpressionChars(_, _)
RECURSIVE StatementChars(_, _)
StatementsChars(statements, words) ==
    JoinChars([i \in 1..Len(statements) |-> StatementChars(statements[i], words)], <<" ">>)

ExpressionChars(e, words) ==
    CASE e.kind = "Infix" ->
           <<"(">> \o ExpressionChars(e.lhs, words) \o <<" ">>
               \o InfixOperatorChars(e.operator) \o <<" ">>
               \o ExpressionChars(e.rhs, words) \o <<")">>
      [] e.kind = "Prefix" ->
           <<"(">> \o PrefixOperatorChars(e.operator) \o ExpressionChars(e.rhs, words)
               \o <<")">>
      [] e.kind = "Bool" ->
           IF e.bool THEN <<"t", "r", "u", "e">> ELSE <<"f", "a", "l", "s", "e">>
      [] e.kind = "Int" -> NatChars(e.int)
      [] e.kind = "Identifier" -> NameChars(e.name, words)
      [] e.kind = "Null" -> <<"n", "u", "l", "l">>
      [] e.kind = "If" ->
           <<"i", "f", " ">> \o ExpressionChars(e.condition, words) \o <<" ", "{", " ">>
               \o StatementsChars(e.consequence, words)
               \o <<" ", "}", " ", "e", "l", "s", "e", " ", "{", " ">>
               \o (IF e.alternative = None THEN <<>>
                   ELSE StatementsChars(e.alternative[1], words))
               \o <<" ", "}">>
      [] e.kind = "Function" ->
           <<"f", "n", "(">>
               \o JoinChars([i \in 1..Len(e.parameters) |->
                                 NameChars(e.parameters[i], words)], <<",", " ">>)
               \o <<")", " ", "{", " ">> \o StatementsChars(e.body, words) \o <<" ", "}">>
      [] e.kind = "Call" ->
           ExpressionChars(e.function, words) \o <<"(">>
               \o JoinChars([i \in 1..Len(e.arguments) |->
                                 ExpressionChars(e.arguments[i], words)], <<",", " ">>)
               \o <<")">>

StatementChars(s, words) ==
    CASE s.kind = "Let" ->
           <<"l", "e", "t", " ">> \o NameChars(s.name, words) \o <<" ", "=", " ">>
               \o ExpressionChars(s.value, words)
      [] s.kind = "Return" ->
           <<"r", "e", "t", "u", "r", "n", " ">> \o ExpressionChars(s.value, words)
      [] s.kind = "Expression" -> ExpressionChars(s.expression, words)

ProgramChars(statements, words) ==
    JoinChars([i \in 1..Len(statements) |-> StatementChars(statements[i], words)],
              <<"\n">>)

\* The words of the identifiers of the source.
SourceWords ==
    {SourceTokens[i].token_type.ident :
         i \in {j \in 1..Len(SourceTokens) : SourceTokens[j].token_type.t = "Identifier"}}

\* parse(format(P)) for a Program P that parse_program returned with no error.
Format ==
    /\ ParseDone /\ parser.errors = <<>> /\ lastOp.formatted = None
    /\ source' = ProgramChars(program, SourceWords)
    /\ parser' = ParserNew(LexerNew(source'))
    /\ program' = <<>>
    /\ ctl' = Call("parse_program")
    /\ lastOp' = [lastOp EXCEPT !.op = "format", !.formatted = Some(program)]
    /\ UNCHANGED <<lexer, envs, stack>>

RoundTripNext == ParseNext \/ Format

RoundTripSpec == ParseInit /\ [][RoundTripNext]_vars

\* The chars are those of the String Display writes.
ProgramCharsIsDisplay ==
    ParseDone /\ lastOp.formatted = None =>
        StringOf(ProgramChars(program, SourceWords)) = DisplayProgram(program)

\* C22: the text of a Program that was parsed without error parses, without
\* error, to a Program equal to it.
C22_RoundTrip ==
    ParseDone /\ lastOp.formatted # None =>
        parser.errors = <<>> /\ program = lastOp.formatted[1]

---------------------------------------------------------------------------
(* What the parser accepts without an error.                               *)

\* advance_tokens is about to pass over a token that is not a `;` and that the
\* statement just returned, without error, did not consume.
Discarding ==
    /\ Calling("advance_tokens")
    /\ lastOp.op = "parse_statement" /\ lastOp.ok
    /\ Current(parser) \notin {"Semicolon", "EOF"}
    /\ Remaining(parser) < lastOp.remaining

\* C26: when advance_tokens passes over a token that is not a `;` and that no
\* statement consumed, parse_program returns with an error recorded: with no
\* error, every token before EOF is part of a statement or a `;` that ends one.
C26_NothingDiscarded == [](Discarding => [](ParseDone => parser.errors # <<>>))

\* parse_function_params has returned and expect_peek!(LBrace) is about to
\* succeed: the parameter list is accepted.
ParametersAccepted ==
    /\ \/ Calling("function_params_end")
       \/ Calling("function_params_loop") /\ Current(parser) # "Identifier"
    /\ Peeking(parser) = "LBrace"

\* Zero or more identifiers separated by single commas.
IdentifierList(types) ==
    \/ Len(types) = 0
    \/ /\ Len(types) % 2 = 1
       /\ \A i \in 1..Len(types) :
              types[i].t = IF i % 2 = 1 THEN "Identifier" ELSE "Comma"

\* The tokens that end at the current token are `fn (`, an identifier list
\* and `)`.
ParameterListEndsHere ==
    /\ Current(parser) = "RParen"
    /\ \E j \in 1..(CurrentTokenIndex - 2) :
          /\ SourceTokens[j].token_type.t = "Function"
          /\ SourceTokens[j + 1].token_type.t = "LParen"
          /\ IdentifierList(SubSeq(SourceTokenTypes, j + 2, CurrentTokenIndex - 1))

C27_Examples ==
    ParseDone /\ source \in ParameterExamples =>
        parser.errors # <<>> /\ program = <<>>

\* C27: a parameter list is accepted only if it is `(`, zero or more
\* identifiers separated by single commas, and `)`; fn(x y) { x }, a trailing
\* or doubled comma, a parameter that is no identifier and a missing `)` each
\* record an error and yield no Function.
C27_ParameterList ==
    /\ ParametersAccepted => ParameterListEndsHere
    /\ C27_Examples

\* The loop of parse_block_statement is about to end at EOF.
BlockEndsAtEof == Calling("block_loop") /\ Current(parser) = "EOF"

\* C28: when EOF is reached inside a block, before its `}`, the block returns
\* and parse_program finishes with at least one error: so for `if (x) { y`
\* and `fn(a) { a;`.
C28_UnclosedBlock == [](BlockEndsAtEof => [](ParseDone => parser.errors # <<>>))

---------------------------------------------------------------------------
(* Properties of calls and scopes in the evaluator.                        *)

\* C23: in a call the function expression is evaluated first, then the
\* arguments from left to right, then the arity is tested: fn(x){ x }(1, 2)
\* is the error about the number of arguments, and fn(x){ x }(foo, 1), whose
\* first argument fails, is the error of that argument.
C23_ArityAfterArguments ==
    /\ FinishedWith(ProgWrongArity,
                    Err("wrong number of arguments: got 2, but function wants 1"))
    /\ FinishedWith(ProgWrongArityFailingArgument, Err("identifier not found: foo"))

\* The environment an if hands to its condition and to the block it chooses is
\* the one the if is evaluated in, a let binds in the environment it is
\* evaluated in and leaves every other one alone, and only the evaluation of
\* a function literal and the call of a function add an environment.
C29_ScopeStep ==
    /\ Evaluating({"If", "Let"}) =>
           ctl'.env = ctl.env /\ stack'[Len(stack')].environment = ctl.env
    /\ ConditionEvaluated /\ ctl'.m = "eval" =>
           ctl'.env = Top.environment /\ stack'[Len(stack')].environment = Top.environment
    /\ ReturnedOk /\ Top.f = "let" =>
           /\ Top.name \in DOMAIN envs'[Top.environment].store
           /\ envs'[Top.environment].store[Top.name] = ctl.r.value
           /\ \A e \in DOMAIN envs : e # Top.environment => envs'[e] = envs[e]
    /\ Len(envs') # Len(envs) =>
           Evaluating({"Function"}) \/ (ReturnedOk /\ Top.f = "call_function")

C29_Results ==
    /\ FinishedWith(ProgLetInIf, Ok(Integer(1)))
    /\ FinishedWith(ProgLetInElse, Ok(Integer(4)))
    /\ Finished(ProgLetInIf) \/ Finished(ProgLetInElse) => Len(envs) = 1

\* C29: an if opens no scope: its blocks are evaluated in the environment the
\* if is evaluated in, so a let inside a block binds or overwrites the name
\* there and the statements after the if see it; `if (true) { let a = 1; }; a`
\* is Integer(1).  Only a function literal and a call create a scope.
C29_IfOpensNoScope == []C29_Results /\ [][C29_ScopeStep]_vars

\* `let a = 1; if (false) { 0 } else { let a = 2; let b = a; }; a + b` has
\* finished with Integer(4): the lets of the block wrote the one environment.
C29_Witness ==
    /\ Finished(ProgLetInElse)
    /\ ctl.r = Ok(Integer(4))
    /\ Len(envs) = 1
    /\ envs[1].store["a"] = Integer(2) /\ envs[1].store["b"] = Integer(2)

\* The scopes from an environment outwards.
RECURSIVE ScopeChain(_, _)
ScopeChain(E, self) ==
    IF self = 0 THEN {} ELSE {self} \cup ScopeChain(E, E[self].outer)

\* The scopes around a call whose body is being evaluated: the environment of
\* the caller, the captured environment of the function, and those that
\* enclose them.
ScopesAround(fr) ==
    ScopeChain(envs, fr.call_environment) \cup ScopeChain(envs, fr.environment)

\* The parameters are bound in the scope made for the call, which began
\* empty; while a body is evaluated no store of the scopes around its call
\* changes.
C30_CallStep ==
    /\ ReturnedOk /\ Top.f = "call_function" /\ Len(envs') > Len(envs) =>
           envs'[Len(envs')].store = EmptyEnvironment(0).store
    /\ ReturnedOk /\ Top.f = "call_argument" =>
           \A e \in DOMAIN envs : e # Top.local_env => envs'[e] = envs[e]
    /\ \A i \in DOMAIN stack :
           stack[i].f = "call_body" =>
               \A e \in ScopesAround(stack[i]) : envs'[e].store = envs[e].store

C30_Results ==
    /\ FinishedWith(ProgCallIsolation, Ok(Integer(1)))
    /\ FinishedWith(ProgCallLocalUnbound, Err("identifier not found: y"))
    /\ FinishedWith(ProgCallTwice, Err("identifier not found: y"))
    /\ FinishedWith(ProgLetInArgumentOfBody, Err("identifier not found: z"))
    /\ Finished(ProgCallIsolation) \/ Finished(ProgCallLocalUnbound) =>
           DOMAIN envs[1].store = {"x", "f"} /\ envs[1].store["x"] = Integer(1)

\* C30: a call binds its parameters and the lets of its body in a scope made
\* for that call, so the stores of the caller's environment, of the
\* function's captured environment and of the scopes that enclose them are
\* after the call what they were before it, and a later call of the function
\* sees no binding of an earlier one;
\* `let x = 1; let f = fn(x){ let y = x; y }; f(2); x` is Integer(1) and y is
\* unbound at top level.
C30_CallIsolation == []C30_Results /\ [][C30_CallStep]_vars

====
